---- MODULE Spec2Model ----
(***************************************************************************)
(* A model of the memory_scanner monitor: the command encoding, the        *)
(* pointer classifier over the region table, the error-injection strategy, *)
(* the parallel scanner, the in-memory checkpoint and the command channel. *)
(*                                                                         *)
(* A 64-bit word (uint64_t) is represented by the set of the indices of    *)
(* its one bits, a subset of 0..63: TLC's integers are 32 bits wide, and   *)
(* the code's bit operations become set operations on this form.           *)
(***************************************************************************)
EXTENDS Integers, Sequences, FiniteSets, TLC

(***************************************************************************)
(* 64-bit words                                                            *)
(***************************************************************************)
WordBits == 64
BitIdx == 0 .. (WordBits - 1)

RECURSIVE Pow2Rec(_)
Pow2Rec(n) == IF n = 0 THEN 1 ELSE 2 * Pow2Rec(n - 1)
Pow2Table == [n \in 0 .. 30 |-> Pow2Rec(n)]
Pow2(n) == Pow2Table[n]

\* The word whose value is the natural number n (n < 2^31).
FromNat(n) == {i \in 0 .. 30 : (n \div Pow2(i)) % 2 = 1}

RECURSIVE SumPow2(_)
SumPow2(s) == IF s = {} THEN 0
              ELSE LET i == CHOOSE x \in s : TRUE IN Pow2(i) + SumPow2(s \ {i})

\* The natural number a word holds; defined for words below 2^31 only.
ToNat(w) == SumPow2(w)

ZeroWord == {}
BitAnd(a, b) == a \cap b
BitOr(a, b) == a \cup b
BitXor(a, b) == (a \ b) \cup (b \ a)
BitNot(a) == BitIdx \ a
Shl(a, k) == {i + k : i \in a} \cap BitIdx
Shr(a, k) == {i - k : i \in a} \cap BitIdx

\* Unsigned a < b: the highest bit in which they differ is set in b.
ULess(a, b) == \E i \in (b \ a) : \A j \in (a \ b) : j < i
ULessEq(a, b) == ~ULess(b, a)

(***************************************************************************)
(* CommandInfo: [cmd: 8 bits][param1: 28 bits][param2: 28 bits]            *)
(***************************************************************************)
CMD_SHIFT == 56
PARAM1_SHIFT == 28
PARAM_BITS == 28
PARAM_MASK == FromNat(Pow2(PARAM_BITS) - 1)

NoOp == 0
Checkpoint == 1
Restore == 2
InjectErrors == 3
Scan == 4
MonitorCommand == {NoOp, Checkpoint, Restore, InjectErrors, Scan}

\* A variant that shifts param1 by the mask width minus a nibble.
PackShortShift(info) ==
    BitOr(BitOr(Shl(FromNat(info.cmd), CMD_SHIFT),
                Shl(BitAnd(info.param1, PARAM_MASK), PARAM1_SHIFT - 4)),
          BitAnd(info.param2, PARAM_MASK))

\* CommandInfo::Pack
Pack(info) ==
    BitOr(BitOr(Shl(FromNat(info.cmd), CMD_SHIFT),
                Shl(BitAnd(info.param1, PARAM_MASK), PARAM1_SHIFT)),
          BitAnd(info.param2, PARAM_MASK))

\* CommandInfo::Unpack(void *): cmd is the uint8_t above CMD_SHIFT.
Unpack(value) ==
    [cmd    |-> ToNat(Shr(value, CMD_SHIFT)),
     param1 |-> BitAnd(Shr(value, PARAM1_SHIFT), PARAM_MASK),
     param2 |-> BitAnd(value, PARAM_MASK)]

\* CommandInfo::CommandInfo(union sigval)
CommandInfoFromSigval(value) ==
    [cmd    |-> ToNat(Shr(value, CMD_SHIFT)),
     param1 |-> BitAnd(Shr(value, PARAM1_SHIFT), PARAM_MASK),
     param2 |-> BitAnd(value, PARAM_MASK)]

(***************************************************************************)
(* Memory regions and the region table (ProcessManager / ProcessBase)      *)
(***************************************************************************)
\* A MemoryRegion; start_addr and end_addr are 64-bit words.
Region(s, e, r, w, x, name) ==
    [start_addr |-> s, end_addr |-> e, is_readable |-> r, is_writable |-> w,
     is_executable |-> x, is_private |-> TRUE, mapping_name |-> name]

\* MemoryRegion::operator<
RegionLess(a, b) == ULess(a.start_addr, b.start_addr)

\* MemoryRegion::contains
Contains(region, addr) ==
    ULessEq(region.start_addr, addr) /\ ULess(addr, region.end_addr)

\* std::sort with operator<: insertion of r before the first larger element.
RECURSIVE InsertSorted(_, _)
InsertSorted(r, sorted) ==
    IF sorted = << >> THEN <<r>>
    ELSE IF RegionLess(r, Head(sorted)) THEN <<r>> \o sorted
    ELSE <<Head(sorted)>> \o InsertSorted(r, Tail(sorted))

RECURSIVE SortRegions(_)
SortRegions(regs) ==
    IF regs = << >> THEN << >>
    ELSE InsertSorted(Head(regs), SortRegions(Tail(regs)))

\* The parse loop of RefreshMemoryMap: a line that does not parse is skipped.
RECURSIVE ParseLines(_)
ParseLines(lines) ==
    IF lines = << >> THEN << >>
    ELSE IF Head(lines).parsed THEN <<Head(lines).region>> \o ParseLines(Tail(lines))
    ELSE ParseLines(Tail(lines))

RECURSIVE FilterReadable(_)
FilterReadable(regs) ==
    IF regs = << >> THEN << >>
    ELSE IF Head(regs).is_readable THEN <<Head(regs)>> \o FilterReadable(Tail(regs))
    ELSE FilterReadable(Tail(regs))

\* ProcessManager::RefreshMemoryMap on an opened maps file: both lists are
\* rebuilt and sorted by start; the result is whether any region was found.
RefreshMemoryMap(lines) ==
    LET parsed == ParseLines(lines) IN
    [all      |-> SortRegions(parsed),
     readable |-> SortRegions(FilterReadable(parsed)),
     ok       |-> parsed # << >>]

\* std::upper_bound(first, first + count, addr, addr < region.start_addr) on
\* the 1-based sequence regs; returns the index of the first region whose
\* start is above addr (Len(regs) + 1 when there is none).
RECURSIVE UpperBound(_, _, _, _)
UpperBound(regs, addr, first, count) ==
    IF count <= 0 THEN first
    ELSE LET step == count \div 2
             it == first + step
         IN IF ~ULess(addr, regs[it].start_addr)
            THEN UpperBound(regs, addr, it + 1, count - (step + 1))
            ELSE UpperBound(regs, addr, first, step)

\* A variant that forgets to step past the probed element.
IsValidPointerTargetNoStepBack(regs, addr) ==
    LET it == UpperBound(regs, addr, 1, Len(regs)) IN
    IF it > Len(regs) THEN FALSE
    ELSE ULessEq(regs[it].start_addr, addr) /\ ULess(addr, regs[it].end_addr)

\* ProcessManager::IsValidPointerTarget over all_regions_
IsValidPointerTarget(regs, addr) ==
    LET it == UpperBound(regs, addr, 1, Len(regs)) IN
    IF it = 1 THEN FALSE
    ELSE ULessEq(regs[it - 1].start_addr, addr) /\ ULess(addr, regs[it - 1].end_addr)

\* ProcessScanner::IsValidPointerTarget: the linear scan over the regions.
IsValidPointerTargetLinear(regs, addr) ==
    \E i \in 1 .. Len(regs) :
        ULessEq(regs[i].start_addr, addr) /\ ULess(addr, regs[i].end_addr)

HIGH_BITS_MASK == 48 .. 63

\* A variant without the alignment test.
IsLikelyPointerNoAlign(regs, value) ==
    IF value = ZeroWord THEN FALSE
    ELSE LET high_bits == BitAnd(value, HIGH_BITS_MASK) IN
         IF high_bits # ZeroWord /\ high_bits # HIGH_BITS_MASK THEN FALSE
         ELSE IsValidPointerTarget(regs, value)

\* ProcessManager::IsLikelyPointer
IsLikelyPointer(regs, value) ==
    IF value = ZeroWord THEN FALSE
    ELSE IF BitAnd(value, FromNat(1)) # ZeroWord THEN FALSE
    ELSE LET high_bits == BitAnd(value, HIGH_BITS_MASK) IN
         IF high_bits # ZeroWord /\ high_bits # HIGH_BITS_MASK THEN FALSE
         ELSE IsValidPointerTarget(regs, value)

(***************************************************************************)
(* ErrorInjectionStrategy: the transformation applied to a word            *)
(***************************************************************************)
ErrorType == {"BitFlip", "StuckAtZero", "StuckAtOne"}

\* A variant whose BitFlip sets the bit instead of toggling it.
ApplyErrorFlipAsSet(type, value, bit, bit2) ==
    CASE type = "BitFlip"     -> BitOr(value, Shl(FromNat(1), bit))
      [] type = "StuckAtZero" -> BitAnd(value, BitNot(Shl(FromNat(1), bit2)))
      [] type = "StuckAtOne"  -> BitOr(value, Shl(FromNat(1), bit2))

\* A variant whose StuckAtZero masks with the bit instead of its complement.
ApplyErrorKeepsOnlyBit(type, value, bit, bit2) ==
    CASE type = "BitFlip"     -> BitXor(value, Shl(FromNat(1), bit))
      [] type = "StuckAtZero" -> BitAnd(value, Shl(FromNat(1), bit2))
      [] type = "StuckAtOne"  -> BitOr(value, Shl(FromNat(1), bit2))

\* The switch of inject_error: bit is the draw made before the switch, bit2
\* the fresh draw the two stuck-at cases make.
ApplyError(type, value, bit, bit2) ==
    CASE type = "BitFlip"     -> BitXor(value, Shl(FromNat(1), bit))
      [] type = "StuckAtZero" -> BitAnd(value, BitNot(Shl(FromNat(1), bit2)))
      [] type = "StuckAtOne"  -> BitOr(value, Shl(FromNat(1), bit2))

(***************************************************************************)
(* ErrorInjectionStrategy: pointer class and quota                         *)
(***************************************************************************)
\* std::string::find on the mapping names the model uses.
NameContains(name, tag) ==
    \/ name = tag
    \/ (tag = "[heap]" /\ name = "/tmp/[heap].so")

\* determine_pointer_type for the region the word lies in
determine_pointer_type(region) ==
    IF region.mapping_name = "" THEN "Unknown"
    ELSE IF NameContains(region.mapping_name, "[heap]") THEN "Heap"
    ELSE IF NameContains(region.mapping_name, "[stack]") THEN "Stack"
    ELSE "Static"

\* RegionQuota as built by the constructor: only the wildcard quota is set.
NewQuota(error_limit) ==
    [heap_errors |-> 0, stack_errors |-> 0, static_errors |-> 0, wildcard_errors |-> 0,
     heap_quota |-> 0, stack_quota |-> 0, static_quota |-> 0, wildcard_quota |-> error_limit]

\* RegionQuota::Available
Available(q, type) ==
    LET wildcard_avail == q.wildcard_errors < q.wildcard_quota IN
    CASE type = "Heap"   -> (q.heap_errors < q.heap_quota) \/ wildcard_avail
      [] type = "Stack"  -> (q.stack_errors < q.stack_quota) \/ wildcard_avail
      [] type = "Static" -> (q.static_errors < q.static_quota) \/ wildcard_avail
      [] OTHER           -> FALSE

\* A variant of Increment that always bumps the class counter.
IncrementTargetClassOnly(q, type) ==
    CASE type = "Heap"   -> "heap_errors"
      [] type = "Stack"  -> "stack_errors"
      [] type = "Static" -> "static_errors"
      [] OTHER           -> "none"

\* RegionQuota::Increment, the counter it selects ("none" for Unknown)
IncrementTarget(q, type) ==
    CASE type = "Heap"   -> IF q.heap_quota = q.heap_errors THEN "wildcard_errors" ELSE "heap_errors"
      [] type = "Stack"  -> IF q.stack_errors = q.stack_quota THEN "wildcard_errors" ELSE "stack_errors"
      [] type = "Static" -> IF q.static_errors = q.static_quota THEN "wildcard_errors" ELSE "static_errors"
      [] OTHER           -> "none"

\* RegionQuota::Increment, the store of the incremented counter; loaded is the
\* value the increment read.
IncrementStore(q, target, loaded) ==
    IF target = "none" THEN q ELSE [q EXCEPT ![target] = loaded + 1]

(***************************************************************************)
(* State                                                                   *)
(***************************************************************************)
VARIABLES
    \* command encoding round trip
    cmd_in, sig_value, cmd_out, pack_pc,
    \* repeated application of the error transformation
    flip_type, flip_orig, flip_bit, flip_value, flip_count,
    \* classifier queries against the region table
    query_value, query_valid, query_likely, ptr_pc

packVars == <<cmd_in, sig_value, cmd_out, pack_pc>>
flipVars == <<flip_type, flip_orig, flip_bit, flip_value, flip_count>>
ptrVars == <<query_value, query_valid, query_likely, ptr_pc>>

VARIABLES
    \* the child: its /proc/<pid>/maps lines and its memory, by word address
    \* and whether the kernel has it ptrace-attached to the monitor
    maps_file, mem, traced,
    \* ProcessManager / ProcessBase
    is_attached, all_regions, readable_regions

childVars == <<maps_file, mem, traced>>
pmVars == <<is_attached, all_regions, readable_regions>>

VARIABLES
    \* ErrorInjectionStrategy: configuration, quota_, changes_; injections
    \* counts the handler calls that returned true, pre_calls and post_calls
    \* the PreRunner and PostRunner calls of the current scan, pre_runner_ok
    \* what the strategy's PreRunner returns
    type_, pointer_error_rate_, non_pointer_error_rate_, quota_, changes_,
    injections, pre_calls, post_calls, pre_runner_ok,
    \* ProcessManager::ScanForPointers: where the call is, its thread count,
    \* the worker threads, their ScanStats, and what the last call returned
    scan_pc, num_threads, workers, thread_stats, scan_result, last_stats, scans_done,
    \* the handler calls of the scan in progress or of the last one: for each
    \* address, the handlers called on it in call order, each with the value
    \* passed and whether it returned true
    handled

stratVars == <<type_, pointer_error_rate_, non_pointer_error_rate_, quota_, changes_,
               injections, pre_calls, post_calls, pre_runner_ok>>
scanVars ==
    <<scan_pc, num_threads, workers, thread_stats, scan_result, last_stats, scans_done,
      handled>>

VARIABLES
    \* ProcessCheckpoint: checkpoint_data_ and checkpoint_regions_
    checkpoint_data_, checkpoint_regions_,
    \* the last step taken on the checkpointed child and what it returned, the
    \* step before it, child memory before the last RestoreCheckpoint, child
    \* memory at the last successful CreateCheckpoint, whether nothing has
    \* written to the child or remapped it since, and the number of steps
    ck_op, ck_ret, ck_prev, ck_before, ck_saved, ck_clean, ck_ops

ckptVars == <<checkpoint_data_, checkpoint_regions_, ck_op, ck_ret, ck_prev, ck_before,
              ck_saved, ck_clean, ck_ops>>

VARIABLES
    \* the traced child in SendCommand: where it is, the command it sends, what
    \* the call returned, whether the child still runs, g_response_received
    ch_pc, ch_cmd, ch_ret, child_alive, g_response_received,
    \* signals in flight: the request (with its sigval) and the response
    sig_q, resp_q,
    \* the monitor's command handler and main loop: g_last_cmd_data,
    \* g_command_pending, the position of HandleCommandMode, the locals of
    \* ProcessCommand, and what the loop returned
    g_last_cmd_data, g_command_pending, mon_pc, cmd_info, should_detach_, success,
    mon_ret,
    \* counts of commands sent, request-handler runs, requests recorded as
    \* pending, commands dispatched, responses sent; and, numbering the commands
    \* by sent, the number of the request in sig_q, of the one in g_last_cmd_data,
    \* of the one in cmd_info, and the numbers dispatched and answered, in order
    sent, handler_runs, recorded, dispatched, responses, seq

cmdVars == <<ch_pc, ch_cmd, ch_ret, child_alive, g_response_received, sig_q, resp_q,
             g_last_cmd_data, g_command_pending, mon_pc, cmd_info, should_detach_,
             success, mon_ret, sent, handler_runs, recorded, dispatched, responses, seq>>

\* the AttachGuard's other variables of the command model
cmdOther == <<ch_pc, ch_cmd, ch_ret, child_alive, g_response_received, sig_q, resp_q,
              g_last_cmd_data, g_command_pending, mon_pc, cmd_info, success, mon_ret,
              sent, handler_runs, recorded, dispatched, responses, seq>>

VARIABLES
    \* direct use of Attach, Detach and AttachGuard: the last call made and
    \* what Attach or Detach returned in it, the call before it, what ptrace and
    \* waitpid did in the last Attach, is_attached_ and the child's traced state
    \* before the last call, and whether an AttachGuard is alive
    at_op, at_ret, at_prev, at_env, at_before, guard_live

attVars == <<at_op, at_ret, at_prev, at_env, at_before, guard_live>>

VARIABLES
    \* ReadMemory and WriteMemory at byte granularity: the child's bytes and the
    \* protection of each of its pages, the last call (its kind, address, size
    \* and buffer), the child's bytes before it, what the scatter-gather call
    \* returned in it, which path it ended on, what it returned, and the number
    \* of calls
    child_bytes, prot, rw_op, rw_addr, rw_size, rw_buf, rw_before, rw_vm, rw_path,
    rw_ret, rw_calls

rwVars == <<child_bytes, prot, rw_op, rw_addr, rw_size, rw_buf, rw_before, rw_vm, rw_path,
            rw_ret, rw_calls>>

VARIABLES
    \* two runs of the monitor on the same child with the same configuration:
    \* the seed given to both strategies, and for each run the number of values
    \* taken from rng_, each thread's next word, the child's memory, changes_,
    \* quota_, the scans finished and changes_ as it was after each of them
    seed, runs

seedVars == <<seed, runs>>

VARIABLES
    \* inject_error's use of the quota on its own: the class of the last word
    \* offered, quota_ as Available saw it, what Available returned, and the
    \* number of words offered
    ask_type, ask_quota, ask_ret, ask_count

askVars == <<ask_type, ask_quota, ask_ret, ask_count>>

VARIABLES
    \* MonitorController::HandlePeriodicMode: where the loop is,
    \* config_.iteration_limit, iterations, the number of ScanForPointers calls
    \* made, what the handler returned, whether the child still runs, and the
    \* call that failed last
    per_pc, iteration_limit, iterations, per_scans, per_ret, per_child, per_failed

perVars == <<per_pc, iteration_limit, iterations, per_scans, per_ret, per_child, per_failed>>

VARIABLES
    \* the preloaded in-process scanner: the two flags, where scanner_worker
    \* is, the number of SIGUSR1 delivered, the number delivered before the
    \* latest scan started, and the number of reports in memory_scan.log
    g_scan_requested, g_scanner_running, inj_pc, delivered, served, reports

injVars == <<g_scan_requested, g_scanner_running, inj_pc, delivered, served, reports>>

VARIABLES
    \* ProcessManager::CreateCheckpoint / RestoreCheckpoint (CRIU): the last
    \* call, what the file system and CRIU did in it, IsAttached() at its
    \* entry, what it returned, what its Detach and its Attach returned
    \* ("none" when not called), IsAttached() at the time criu_dump or
    \* criu_restore was called ("none" when not called), and the number of calls
    cr_op, cr_env, cr_before, cr_ret, cr_detach, cr_attach, cr_snapshot, cr_calls

crVars == <<cr_op, cr_env, cr_before, cr_ret, cr_detach, cr_attach, cr_snapshot, cr_calls>>

\* What each part of the model leaves alone.
restOfPack ==
    <<flipVars, ptrVars, childVars, pmVars, stratVars, scanVars, ckptVars, cmdVars, attVars,
      rwVars, seedVars, askVars, perVars, injVars, crVars>>
restOfFlip ==
    <<packVars, ptrVars, childVars, pmVars, stratVars, scanVars, ckptVars, cmdVars, attVars,
      rwVars, seedVars, askVars, perVars, injVars, crVars>>
restOfPtr ==
    <<packVars, flipVars, stratVars, scanVars, ckptVars, cmdVars, attVars, rwVars, seedVars,
      askVars, perVars, injVars, crVars>>
restOfScan ==
    <<packVars, flipVars, ptrVars, ckptVars, cmdVars, attVars, rwVars, seedVars, askVars,
      perVars, injVars, crVars>>
restOfCkpt ==
    <<packVars, flipVars, ptrVars, stratVars, scanVars, cmdVars, attVars, rwVars, seedVars,
      askVars, perVars, injVars, crVars>>
restOfCmd ==
    <<packVars, flipVars, ptrVars, ckptVars, attVars, rwVars, seedVars, askVars, perVars,
      injVars, crVars>>
restOfAtt ==
    <<packVars, flipVars, ptrVars, stratVars, scanVars, ckptVars, cmdOther, rwVars, seedVars,
      askVars, perVars, injVars, crVars>>
restOfSeed ==
    <<packVars, flipVars, ptrVars, ckptVars, cmdVars, attVars, rwVars, askVars, perVars,
      injVars, crVars>>
restOfAsk ==
    <<packVars, flipVars, ptrVars, childVars, pmVars, scanVars, ckptVars, cmdVars, attVars,
      rwVars, seedVars, perVars, injVars, crVars>>
restOfPer ==
    <<packVars, flipVars, ptrVars, childVars, pmVars, stratVars, scanVars, ckptVars, cmdVars,
      attVars, rwVars, seedVars, askVars, injVars, crVars>>
restOfInj ==
    <<packVars, flipVars, ptrVars, childVars, pmVars, stratVars, scanVars, ckptVars, cmdVars,
      attVars, rwVars, seedVars, askVars, perVars, crVars>>
restOfCr ==
    <<packVars, flipVars, ptrVars, stratVars, scanVars, ckptVars, cmdVars, attVars, rwVars,
      seedVars, askVars, perVars, injVars>>
restOfRw ==
    <<packVars, flipVars, ptrVars, stratVars, scanVars, ckptVars, cmdVars, attVars, seedVars,
      askVars, perVars, injVars, crVars>>

(***************************************************************************)
(* Quiescent values of each group of variables                             *)
(***************************************************************************)
NoCommand == [cmd |-> NoOp, param1 |-> ZeroWord, param2 |-> ZeroWord]

PackIdle ==
    /\ cmd_in = NoCommand
    /\ sig_value = ZeroWord
    /\ cmd_out = NoCommand
    /\ pack_pc = "off"

FlipIdle ==
    /\ flip_type = "BitFlip"
    /\ flip_orig = ZeroWord
    /\ flip_bit = 0
    /\ flip_value = ZeroWord
    /\ flip_count = 0

PtrIdle ==
    /\ query_value = ZeroWord
    /\ query_valid = FALSE
    /\ query_likely = FALSE
    /\ ptr_pc = "off"

\* ProcessManager::ProcessManager: detached, no regions yet.
PMInit ==
    /\ is_attached = FALSE
    /\ all_regions = << >>
    /\ readable_regions = << >>

ChildIdle ==
    /\ maps_file = << >>
    /\ mem = << >>
    /\ traced = FALSE

NoRequests == [q |-> 0, last |-> 0, cmd |-> 0, disp |-> << >>, answered |-> << >>]

\* No traced child sending commands, no monitor loop.
CmdIdle ==
    /\ ch_pc = "off"
    /\ ch_cmd = NoCommand
    /\ ch_ret = "none"
    /\ child_alive = TRUE
    /\ g_response_received = FALSE
    /\ sig_q = << >>
    /\ resp_q = FALSE
    /\ g_last_cmd_data = ZeroWord
    /\ g_command_pending = FALSE
    /\ mon_pc = "off"
    /\ cmd_info = NoCommand
    /\ should_detach_ = FALSE
    /\ success = TRUE
    /\ mon_ret = "none"
    /\ sent = 0
    /\ handler_runs = 0
    /\ recorded = 0
    /\ dispatched = 0
    /\ responses = 0
    /\ seq = NoRequests

NoStep == [op |-> "none", ret |-> FALSE]

\* No byte-level child, no ReadMemory or WriteMemory call yet.
RwIdle ==
    /\ child_bytes = << >>
    /\ prot = << >>
    /\ rw_op = "none"
    /\ rw_addr = 0
    /\ rw_size = 0
    /\ rw_buf = << >>
    /\ rw_before = << >>
    /\ rw_vm = 0
    /\ rw_path = "none"
    /\ rw_ret = FALSE
    /\ rw_calls = 0

\* No word offered to the quota on its own.
AskIdle ==
    /\ ask_type = "Unknown"
    /\ ask_quota = NewQuota(0)
    /\ ask_ret = FALSE
    /\ ask_count = 0

\* Periodic mode not entered.
PerIdle ==
    /\ per_pc = "idle"
    /\ iteration_limit = [has |-> FALSE, value |-> 0]
    /\ iterations = 0
    /\ per_scans = 0
    /\ per_ret = "none"
    /\ per_child = TRUE
    /\ per_failed = "none"

\* No preloaded scanner.
InjIdle ==
    /\ g_scan_requested = FALSE
    /\ g_scanner_running = FALSE
    /\ inj_pc = "none"
    /\ delivered = 0
    /\ served = 0
    /\ reports = 0

\* No CRIU checkpoint or restore yet.
CrIdle ==
    /\ cr_op = "none"
    /\ cr_env = [dir |-> "ok", mkdir_ok |-> TRUE, init_ok |-> TRUE, snapshot_ok |-> TRUE,
                 detach_ok |-> TRUE,
                 attach |-> [ptrace_ok |-> TRUE, wait1 |-> "SIGSTOP", wait2 |-> "SIGSTOP",
                             maps_open |-> TRUE]]
    /\ cr_before = FALSE
    /\ cr_ret = FALSE
    /\ cr_detach = "none"
    /\ cr_attach = "none"
    /\ cr_snapshot = "none"
    /\ cr_calls = 0

\* No pair of runs.
SeedIdle ==
    /\ seed = 0
    /\ runs = << >>

\* No direct Attach, Detach or AttachGuard yet.
AttIdle ==
    /\ at_op = "none"
    /\ at_ret = FALSE
    /\ at_prev = NoStep
    /\ at_env = [ptrace_ok |-> TRUE, wait1 |-> "SIGSTOP", wait2 |-> "SIGSTOP",
                 maps_open |-> TRUE]
    /\ at_before = [is_attached |-> FALSE, traced |-> FALSE]
    /\ guard_live = FALSE

\* ProcessCheckpoint::ProcessCheckpoint: nothing saved.
CkptIdle ==
    /\ checkpoint_data_ = << >>
    /\ checkpoint_regions_ = << >>
    /\ ck_op = "none"
    /\ ck_ret = FALSE
    /\ ck_prev = NoStep
    /\ ck_before = << >>
    /\ ck_saved = << >>
    /\ ck_clean = FALSE
    /\ ck_ops = 0

(***************************************************************************)
(* Command encoding: Pack followed by Unpack or by the sigval constructor  *)
(***************************************************************************)
ParamChoices ==
    { ZeroWord, FromNat(1), PARAM_MASK, {PARAM_BITS - 1}, FromNat(703710),
      {PARAM_BITS}, {0, 40} }

CommandChoices ==
    [cmd : MonitorCommand, param1 : ParamChoices, param2 : ParamChoices]

\* kind in 0..4 and both parameters below 2^28
InRange(info) ==
    /\ info.cmd \in MonitorCommand
    /\ \A i \in info.param1 : i < PARAM_BITS
    /\ \A i \in info.param2 : i < PARAM_BITS

PackInit ==
    /\ cmd_in \in CommandChoices
    /\ sig_value = ZeroWord
    /\ cmd_out = NoCommand
    /\ pack_pc = "start"

PackStep ==
    /\ pack_pc = "start"
    /\ sig_value' = Pack(cmd_in)
    /\ pack_pc' = "packed"
    /\ UNCHANGED <<cmd_in, cmd_out>>
    /\ UNCHANGED restOfPack

UnpackStep ==
    /\ pack_pc = "packed"
    /\ cmd_out' = Unpack(sig_value)
    /\ pack_pc' = "unpacked"
    /\ UNCHANGED <<cmd_in, sig_value>>
    /\ UNCHANGED restOfPack

SigvalCtorStep ==
    /\ pack_pc = "packed"
    /\ cmd_out' = CommandInfoFromSigval(sig_value)
    /\ pack_pc' = "constructed"
    /\ UNCHANGED <<cmd_in, sig_value>>
    /\ UNCHANGED restOfPack

(***************************************************************************)
(* The error transformation applied repeatedly with the same bit index     *)
(***************************************************************************)
FlipApplications == 2

WordChoices ==
    { ZeroWord, BitIdx, FromNat(1), {63}, {12, 47}, 40 .. 46, FromNat(43690) }

FlipInit ==
    /\ flip_type \in ErrorType
    /\ flip_orig \in WordChoices
    /\ flip_bit \in BitIdx
    /\ flip_value = flip_orig
    /\ flip_count = 0

FlipStep ==
    /\ flip_count < FlipApplications
    /\ flip_value' = ApplyError(flip_type, flip_value, flip_bit, flip_bit)
    /\ flip_count' = flip_count + 1
    /\ UNCHANGED <<flip_type, flip_orig, flip_bit>>
    /\ UNCHANGED restOfFlip

(***************************************************************************)
(* Classifier queries: a refresh of the region table, then one query       *)
(***************************************************************************)
Line(region) == [parsed |-> TRUE, region |-> region]
Garbage == [parsed |-> FALSE, region |-> Region(ZeroWord, ZeroWord, FALSE, FALSE, FALSE, "")]

A4000 == {14}
RegText == Region({12}, {12, 13}, TRUE, FALSE, TRUE, "/bin/app")
RegData == Region({12, 13}, A4000, TRUE, TRUE, FALSE, "/bin/app")
RegNone == Region({12, 14}, {13, 14}, FALSE, FALSE, FALSE, "")
RegHeap == Region(40 .. 46, (40 .. 46) \cup {12}, TRUE, TRUE, FALSE, "[heap]")
RegStack == Region(33 .. 46, (33 .. 46) \cup {13}, TRUE, TRUE, FALSE, "[stack]")
RegVsys == Region((24 .. 63) \cup {21, 22}, (24 .. 63) \cup {21, 22, 12},
                  FALSE, FALSE, TRUE, "[vsyscall]")

PtrMaps ==
    { <<Line(RegText), Line(RegData), Line(RegNone), Line(RegHeap), Line(RegStack), Line(RegVsys)>>,
      <<Line(RegVsys), Line(RegStack), Line(RegHeap), Line(RegNone), Line(RegData), Line(RegText)>>,
      <<Line(RegHeap), Garbage, Line(RegText), Line(RegVsys), Line(RegData)>>,
      <<Line(RegStack), Line(RegText)>>,
      <<Line(RegHeap)>>,
      <<Garbage, Garbage>> }

PtrValues ==
    { ZeroWord, FromNat(1), {11}, {12}, {0, 12}, {1, 12}, {12, 13}, 1 .. 13, A4000,
      {11, 14}, {3, 12, 14}, 40 .. 46, (40 .. 46) \cup {3}, (40 .. 46) \cup {12},
      (40 .. 46) \cup {0, 3}, (33 .. 46) \cup {4}, {12, 48}, (48 .. 63) \cup {12},
      47 .. 63, (24 .. 63) \cup {21, 22, 4}, (24 .. 63) \cup {21, 22, 0},
      (24 .. 62) \cup {21, 22, 4}, BitIdx }

PtrInit ==
    /\ maps_file \in PtrMaps
    /\ mem = << >>
    /\ traced = FALSE
    /\ query_value \in PtrValues
    /\ query_valid = FALSE
    /\ query_likely = FALSE
    /\ ptr_pc = "start"

PtrRefresh ==
    /\ ptr_pc = "start"
    /\ LET r == RefreshMemoryMap(maps_file) IN
        /\ all_regions' = r.all
        /\ readable_regions' = r.readable
        /\ ptr_pc' = IF r.ok THEN "mapped" ELSE "failed"
    /\ UNCHANGED <<is_attached, childVars, query_value, query_valid, query_likely>>
    /\ UNCHANGED restOfPtr

PtrQuery ==
    /\ ptr_pc = "mapped"
    /\ query_valid' = IsValidPointerTarget(all_regions, query_value)
    /\ query_likely' = IsLikelyPointer(all_regions, query_value)
    /\ ptr_pc' = "done"
    /\ UNCHANGED <<pmVars, childVars, query_value>>
    /\ UNCHANGED restOfPtr

(***************************************************************************)
(* ProcessManager::Attach and Detach                                       *)
(***************************************************************************)
\* What waitpid reports after PTRACE_ATTACH or PTRACE_CONT.
WaitKinds == {"error", "exited", "SIGSTOP", "SIGTRAP", "SIGINT"}

AttachEnvs ==
    [ptrace_ok : BOOLEAN, wait1 : WaitKinds, wait2 : WaitKinds, maps_open : BOOLEAN]

AttachOk == [ptrace_ok |-> TRUE, wait1 |-> "SIGSTOP", wait2 |-> "SIGSTOP", maps_open |-> TRUE]

\* ProcessManager::Attach when not yet attached: what it returns and leaves
\* behind, given what ptrace, waitpid and the maps file do (e), the maps lines
\* and the region lists held so far.
AttachOutcome(e, lines, all, readable) ==
    LET Keep(ret, tr, att) ==
            [ret |-> ret, traced |-> tr, is_attached |-> att,
             all |-> all, readable |-> readable]
        Refreshed ==
            IF e.maps_open
            THEN LET r == RefreshMemoryMap(lines) IN
                 [ret |-> r.ok, traced |-> TRUE, is_attached |-> TRUE,
                  all |-> r.all, readable |-> r.readable]
            ELSE Keep(FALSE, TRUE, TRUE)
    IN  IF ~e.ptrace_ok THEN Keep(FALSE, FALSE, FALSE)
        ELSE IF e.wait1 \in {"error", "exited"} THEN Keep(FALSE, FALSE, FALSE)
        ELSE IF e.wait1 = "SIGTRAP"
             THEN IF e.wait2 \in {"error", "exited"} THEN Keep(FALSE, FALSE, FALSE)
                  ELSE IF e.wait2 # "SIGSTOP" THEN Keep(FALSE, TRUE, FALSE)
                  ELSE Refreshed
        ELSE Refreshed

(***************************************************************************)
(* ProcessManager::ScanForPointers and ScanRegion                          *)
(***************************************************************************)
WordSize == 8
PageWords == 2
PageSize == PageWords * WordSize
MaxThreads == 2
MaxScans == 2
MaxLimit == 2

Threads == 0 .. (MaxThreads - 1)

Min(a, b) == IF a < b THEN a ELSE b

ZeroStats ==
    [total_bytes_scanned |-> 0, bytes_readable |-> 0, bytes_writable |-> 0,
     bytes_executable |-> 0, regions_scanned |-> 0, pointers_found |-> 0,
     bytes_skipped |-> 0]

\* Region i of the list goes to thread i mod n (i counted from zero).
RECURSIVE Shard(_, _, _, _)
Shard(regs, n, t, i) ==
    IF i > Len(regs) THEN << >>
    ELSE IF (i - 1) % n = t THEN <<regs[i]>> \o Shard(regs, n, t, i + 1)
    ELSE Shard(regs, n, t, i + 1)

\* A variant that hands every region to the first thread.
ThreadRegionsAllToFirst(regs, n, t) == IF t = 0 THEN regs ELSE << >>

\* thread_regions[t] of ScanForPointers
ThreadRegions(regs, n, t) == Shard(regs, n, t, 1)

NoHandler == [type |-> "Unknown", addr |-> 0, old |-> ZeroWord, new |-> ZeroWord,
              target |-> "none", loaded |-> 0]

IdleWorker ==
    [pc |-> "done", regions |-> << >>, ridx |-> 1, addr |-> 0, to_read |-> 0,
     buf |-> << >>, off |-> 0, write_back |-> FALSE, h |-> NoHandler]

\* A thread at the top of its lambda: before its first region, or finished.
StartWorker(regs) ==
    IF regs = << >> THEN IdleWorker
    ELSE [IdleWorker EXCEPT !.pc = "page", !.regions = regs,
                            !.addr = ToNat(regs[1].start_addr)]

\* The merge loop of ScanForPointers over the threads 0 .. n-1.
RECURSIVE MergeStats(_, _)
MergeStats(stats, n) ==
    IF n = 0 THEN ZeroStats
    ELSE LET rest == MergeStats(stats, n - 1)
             s == stats[n - 1]
         IN [total_bytes_scanned |-> rest.total_bytes_scanned + s.total_bytes_scanned,
             bytes_readable |-> rest.bytes_readable + s.bytes_readable,
             bytes_writable |-> rest.bytes_writable + s.bytes_writable,
             bytes_executable |-> rest.bytes_executable + s.bytes_executable,
             regions_scanned |-> rest.regions_scanned + s.regions_scanned,
             pointers_found |-> rest.pointers_found + s.pointers_found,
             bytes_skipped |-> rest.bytes_skipped + s.bytes_skipped]

\* The words of child memory in [addr, addr + size), as ReadMemory returns them.
PageOf(m, addr, size) == [i \in 1 .. (size \div WordSize) |-> m[addr + (i - 1) * WordSize]]

\* A variant of the write that clears the whole of the child's memory.
WritePageClearsAll(m, addr, buf) == [a \in DOMAIN m |-> ZeroWord]

\* Child memory after WriteMemory(addr, buf, size) succeeded.
WritePage(m, addr, buf) ==
    [a \in DOMAIN m |->
        IF \E i \in 1 .. Len(buf) : a = addr + (i - 1) * WordSize
        THEN buf[((a - addr) \div WordSize) + 1]
        ELSE m[a]]

\* current_addr += to_read, then the tests of the while loop and of the
\* thread's loop over its regions.
NextPage(wk) ==
    LET r == wk.regions[wk.ridx]
        a == wk.addr + wk.to_read
    IN  IF a < ToNat(r.end_addr)
        THEN [IdleWorker EXCEPT !.pc = "page", !.regions = wk.regions,
                                !.ridx = wk.ridx, !.addr = a]
        ELSE IF wk.ridx < Len(wk.regions)
        THEN [IdleWorker EXCEPT !.pc = "page", !.regions = wk.regions,
                                !.ridx = wk.ridx + 1,
                                !.addr = ToNat(wk.regions[wk.ridx + 1].start_addr)]
        ELSE IdleWorker

\* Whether the page just handled was the last of its region.
RegionDone(wk) == wk.addr + wk.to_read >= ToNat(wk.regions[wk.ridx].end_addr)

\* A variant of the for loop that steps over two words at a time.
AfterWordSkipsOne(wk) ==
    [wk EXCEPT !.off = wk.off + 2, !.h = NoHandler,
               !.pc = IF (wk.off + 2) * WordSize + WordSize <= wk.to_read
                      THEN "word" ELSE "flush"]

\* offset += sizeof(uint64_t) and the test of the for loop.
AfterWord(wk) ==
    [wk EXCEPT !.off = wk.off + 1, !.h = NoHandler,
               !.pc = IF (wk.off + 1) * WordSize + WordSize <= wk.to_read
                      THEN "word" ELSE "flush"]

\* The rates, and the values of the uniform draw in [0, 1), in hundredths.
RateChoices == {0, 100}
DrawChoices == {0, 99}
BitChoices == {3}

\* ScanForPointers from the second PreRunner call to the launch of the
\* threads.
ScanLaunch ==
    /\ pre_calls' = 2
    /\ post_calls' = 0
    /\ workers' = [t \in Threads |->
                      IF t < num_threads
                      THEN StartWorker(ThreadRegions(readable_regions, num_threads, t))
                      ELSE IdleWorker]
    /\ thread_stats' = [t \in Threads |-> ZeroStats]
    /\ scan_pc' = "running"
    /\ scan_result' = "none"
    /\ last_stats' = ZeroStats
    /\ handled' = << >>
    /\ UNCHANGED <<num_threads, scans_done, type_, pointer_error_rate_,
                   non_pointer_error_rate_, quota_, changes_, injections,
                   pre_runner_ok>>

\* A variant of the scan that ignores what PreRunner returns.
ScanBeginIgnoresPreRunner ==
    /\ scan_pc = "idle"
    /\ scans_done < MaxScans
    /\ IF ~is_attached
       THEN /\ scan_result' = "threw"
            /\ scans_done' = scans_done + 1
            /\ UNCHANGED <<scan_pc, num_threads, workers, thread_stats, last_stats, handled,
                           stratVars>>
       ELSE ScanLaunch
    /\ UNCHANGED <<pmVars, childVars>>

\* ScanForPointers up to the launch of the threads. Not attached: it throws.
\* PreRunner returned false: it returns no statistics.
ScanBegin ==
    /\ scan_pc = "idle"
    /\ scans_done < MaxScans
    /\ IF ~is_attached
       THEN /\ scan_result' = "threw"
            /\ scans_done' = scans_done + 1
            /\ UNCHANGED <<scan_pc, num_threads, workers, thread_stats, last_stats, handled,
                           stratVars>>
       ELSE IF ~pre_runner_ok
       THEN /\ scan_result' = "nullopt"
            /\ scans_done' = scans_done + 1
            /\ pre_calls' = 1
            /\ post_calls' = 0
            /\ UNCHANGED <<scan_pc, num_threads, workers, thread_stats, last_stats, handled,
                           type_, pointer_error_rate_, non_pointer_error_rate_, quota_,
                           changes_, injections, pre_runner_ok>>
       ELSE ScanLaunch
    /\ UNCHANGED <<pmVars, childVars>>

ScanStart == ScanBegin /\ UNCHANGED restOfScan

\* ScanRegion: the ReadMemory of one page; a failed read skips the page.
WReadPage(w) ==
    /\ scan_pc = "running"
    /\ workers[w].pc = "page"
    /\ LET wk == workers[w]
           r == wk.regions[wk.ridx]
           to_read == Min(ToNat(r.end_addr) - wk.addr, PageSize)
           rd == [wk EXCEPT !.to_read = to_read]
       IN \E ok \in BOOLEAN :
            /\ ok => is_attached
            /\ IF ok
               THEN /\ workers' = [workers EXCEPT ![w] =
                          [rd EXCEPT !.buf = PageOf(mem, wk.addr, to_read),
                                     !.off = 0, !.write_back = FALSE,
                                     !.pc = IF WordSize <= to_read THEN "word" ELSE "flush"]]
                    /\ UNCHANGED thread_stats
               ELSE /\ workers' = [workers EXCEPT ![w] = NextPage(rd)]
                    /\ thread_stats' = [thread_stats EXCEPT
                          ![w].bytes_skipped = @ + to_read,
                          ![w].regions_scanned = @ + (IF RegionDone(rd) THEN 1 ELSE 0)]
    /\ UNCHANGED <<scan_pc, num_threads, scan_result, last_stats, scans_done, handled,
                   stratVars, pmVars, childVars>>
    /\ UNCHANGED restOfScan

\* ScanRegion: one word of the page is classified and handed to HandlePointer
\* or HandleNonPointer; inject_error evaluates its guard
\*   !writable || dist_(rng_) > rate || !quota.Available(type).
WWord(w) ==
    /\ scan_pc = "running"
    /\ workers[w].pc = "word"
    /\ LET wk == workers[w]
           r == wk.regions[wk.ridx]
           value == wk.buf[wk.off + 1]
           isptr == IsLikelyPointer(all_regions, value)
           rate == IF isptr THEN pointer_error_rate_ ELSE non_pointer_error_rate_
           type == determine_pointer_type(r)
       IN \E d \in DrawChoices :
            LET pass == r.is_writable /\ ~(d > rate) /\ Available(quota_, type) IN
            /\ workers' = [workers EXCEPT ![w] =
                  IF pass
                  THEN [wk EXCEPT !.pc = "apply",
                                  !.h = [NoHandler EXCEPT !.type = type,
                                            !.addr = wk.addr + wk.off * WordSize,
                                            !.old = value]]
                  ELSE AfterWord(wk)]
            /\ thread_stats' = [thread_stats EXCEPT
                  ![w].pointers_found = @ + (IF isptr THEN 1 ELSE 0)]
            /\ handled' =
                  LET a == wk.addr + wk.off * WordSize
                      call == [handler |-> IF isptr THEN "HandlePointer"
                                           ELSE "HandleNonPointer",
                               value |-> value, ret |-> FALSE]
                  IN [x \in DOMAIN handled \cup {a} |->
                        IF x = a
                        THEN (IF a \in DOMAIN handled THEN handled[a] ELSE << >>)
                             \o <<call>>
                        ELSE handled[x]]
    /\ UNCHANGED <<scan_pc, num_threads, scan_result, last_stats, scans_done,
                   stratVars, pmVars, childVars>>
    /\ UNCHANGED restOfScan

\* inject_error: the bit draws, the transformation, the change record, and
\* the read of the counter that quota.Increment is about to bump.
WApply(w) ==
    /\ scan_pc = "running"
    /\ workers[w].pc = "apply"
    /\ LET wk == workers[w]
           r == wk.regions[wk.ridx]
           target == IncrementTarget(quota_, wk.h.type)
       IN \E bit \in BitChoices, bit2 \in BitChoices :
            LET new == ApplyError(type_, wk.h.old, bit, bit2) IN
            /\ changes_' = [a \in DOMAIN changes_ \cup {wk.h.addr} |->
                              IF a = wk.h.addr
                              THEN [original |-> wk.h.old, modified |-> new,
                                    type |-> wk.h.type, region_name |-> r.mapping_name]
                              ELSE changes_[a]]
            /\ workers' = [workers EXCEPT ![w] =
                  [wk EXCEPT !.pc = "incr", !.h.new = new, !.h.target = target,
                             !.h.loaded = IF target = "none" THEN 0 ELSE quota_[target]]]
    /\ UNCHANGED <<scan_pc, num_threads, thread_stats, scan_result, last_stats, scans_done,
                   handled,
                   type_, pointer_error_rate_, non_pointer_error_rate_, quota_,
                   injections, pre_calls, post_calls, pre_runner_ok, pmVars, childVars>>
    /\ UNCHANGED restOfScan

\* inject_error: the store of quota.Increment and the return of true; the
\* scanner patches its buffer and marks the page for write-back.
WIncr(w) ==
    /\ scan_pc = "running"
    /\ workers[w].pc = "incr"
    /\ LET wk == workers[w] IN
        /\ quota_' = IncrementStore(quota_, wk.h.target, wk.h.loaded)
        /\ injections' = injections + 1
        /\ handled' = [handled EXCEPT ![wk.h.addr] =
                          [k \in DOMAIN @ |-> IF k = Len(@) THEN [@[k] EXCEPT !.ret = TRUE]
                                              ELSE @[k]]]
        /\ workers' = [workers EXCEPT ![w] =
              AfterWord([wk EXCEPT !.buf[wk.off + 1] = wk.h.new, !.write_back = TRUE])]
    /\ UNCHANGED <<scan_pc, num_threads, thread_stats, scan_result, last_stats, scans_done,
                   type_, pointer_error_rate_, non_pointer_error_rate_, changes_,
                   pre_calls, post_calls, pre_runner_ok, pmVars, childVars>>
    /\ UNCHANGED restOfScan

\* ScanRegion after the last word of a page: the counters, the write-back of
\* a dirty page of a writable region (its result is ignored), the next page.
WFlush(w) ==
    /\ scan_pc = "running"
    /\ workers[w].pc = "flush"
    /\ LET wk == workers[w]
           r == wk.regions[wk.ridx]
       IN /\ thread_stats' = [thread_stats EXCEPT
                ![w].total_bytes_scanned = @ + wk.to_read,
                ![w].bytes_readable = @ + wk.to_read,
                ![w].bytes_writable = @ + (IF r.is_writable THEN wk.to_read ELSE 0),
                ![w].bytes_executable = @ + (IF r.is_executable THEN wk.to_read ELSE 0),
                ![w].regions_scanned = @ + (IF RegionDone(wk) THEN 1 ELSE 0)]
          /\ IF wk.write_back /\ r.is_writable
             THEN \E wrote \in BOOLEAN :
                    /\ wrote => is_attached
                    /\ mem' = IF wrote THEN WritePage(mem, wk.addr, wk.buf) ELSE mem
             ELSE mem' = mem
          /\ workers' = [workers EXCEPT ![w] = NextPage(wk)]
    /\ UNCHANGED <<scan_pc, num_threads, scan_result, last_stats, scans_done, handled,
                   stratVars, pmVars, maps_file, traced>>
    /\ UNCHANGED restOfScan

\* A variant that does not wait for the threads.
JoinsNothing == TRUE

\* for (auto &thread : threads) thread.join(): every lambda has returned.
AllJoined == \A t \in Threads : workers[t].pc = "done"

\* A variant of the merge that keeps the first thread's counters only.
MergedStatsFirstOnly == thread_stats[0]

\* The merge loop of ScanForPointers
MergedStats == MergeStats(thread_stats, num_threads)

\* ScanForPointers after the joins: merge, PostRunner, return the statistics.
ScanJoin ==
    /\ scan_pc = "running"
    /\ AllJoined
    /\ last_stats' = MergedStats
    /\ post_calls' = post_calls + 1
    /\ scan_result' = "stats"
    /\ scan_pc' = "idle"
    /\ scans_done' = scans_done + 1
    /\ UNCHANGED <<num_threads, workers, thread_stats, handled, type_,
                   pointer_error_rate_, non_pointer_error_rate_, quota_, changes_,
                   injections, pre_calls, pre_runner_ok, pmVars, childVars>>
    /\ UNCHANGED restOfScan

(***************************************************************************)
(* Scanning: attach, scan with num_threads workers, detach, scan again     *)
(***************************************************************************)
StratIdle ==
    /\ type_ = "BitFlip"
    /\ pointer_error_rate_ = 0
    /\ non_pointer_error_rate_ = 0
    /\ quota_ = NewQuota(0)
    /\ changes_ = << >>
    /\ injections = 0
    /\ pre_calls = 0
    /\ post_calls = 0
    /\ pre_runner_ok = TRUE

ScanIdle ==
    /\ scan_pc = "off"
    /\ num_threads = 1
    /\ workers = [t \in Threads |-> IdleWorker]
    /\ thread_stats = [t \in Threads |-> ZeroStats]
    /\ scan_result = "none"
    /\ last_stats = ZeroStats
    /\ handled = << >>
    /\ scans_done = 0

\* The scanned child: a one-page heap, a one-page stack, a one-page read-only
\* text mapping, and an unreadable mapping.
ScanHeap == Region(FromNat(64), FromNat(80), TRUE, TRUE, FALSE, "[heap]")
ScanStack == Region(FromNat(128), FromNat(144), TRUE, TRUE, FALSE, "[stack]")
ScanText == Region(FromNat(192), FromNat(208), TRUE, FALSE, TRUE, "/bin/app")
ScanNone == Region(FromNat(224), FromNat(240), FALSE, FALSE, FALSE, "")

ScanMaps == <<Line(ScanHeap), Line(ScanStack), Line(ScanText), Line(ScanNone)>>

ScanMem ==
    (64 :> FromNat(128)) @@ (72 :> FromNat(5)) @@
    (128 :> FromNat(72)) @@ (136 :> FromNat(7)) @@
    (192 :> FromNat(64)) @@ (200 :> FromNat(1)) @@
    (224 :> ZeroWord) @@ (232 :> ZeroWord)

ScanAttachEnvs ==
    { AttachOk,
      [AttachOk EXCEPT !.ptrace_ok = FALSE],
      [AttachOk EXCEPT !.wait1 = "SIGTRAP"] }

ScanInit ==
    /\ maps_file = ScanMaps
    /\ mem = ScanMem
    /\ traced = FALSE
    /\ PMInit
    /\ type_ \in ErrorType
    /\ pointer_error_rate_ \in RateChoices
    /\ non_pointer_error_rate_ \in RateChoices
    /\ \E limit \in 1 .. MaxLimit : quota_ = NewQuota(limit)
    /\ changes_ = << >>
    /\ injections = 0
    /\ pre_calls = 0
    /\ post_calls = 0
    /\ pre_runner_ok \in BOOLEAN
    /\ scan_pc = "idle"
    /\ num_threads \in 1 .. MaxThreads
    /\ workers = [t \in Threads |-> IdleWorker]
    /\ thread_stats = [t \in Threads |-> ZeroStats]
    /\ scan_result = "none"
    /\ last_stats = ZeroStats
    /\ handled = << >>
    /\ scans_done = 0

\* ProcessManager::Attach
PMAttach(e) ==
    /\ ~is_attached
    /\ LET o == AttachOutcome(e, maps_file, all_regions, readable_regions) IN
        /\ is_attached' = o.is_attached
        /\ traced' = o.traced
        /\ all_regions' = o.all
        /\ readable_regions' = o.readable
    /\ UNCHANGED <<maps_file, mem>>

\* ProcessManager::Detach; PTRACE_DETACH may be refused.
PMDetach(ok) ==
    /\ is_attached
    /\ is_attached' = IF ok THEN FALSE ELSE TRUE
    /\ traced' = IF ok THEN FALSE ELSE traced
    /\ UNCHANGED <<maps_file, mem, all_regions, readable_regions>>

ScanAttach ==
    /\ scan_pc = "idle"
    /\ \E e \in ScanAttachEnvs : PMAttach(e)
    /\ UNCHANGED <<stratVars, scanVars>>
    /\ UNCHANGED restOfScan

ScanDetach ==
    /\ scan_pc = "idle"
    /\ \E ok \in BOOLEAN : PMDetach(ok)
    /\ UNCHANGED <<stratVars, scanVars>>
    /\ UNCHANGED restOfScan

ScanNext ==
    \/ ScanAttach
    \/ ScanDetach
    \/ ScanStart
    \/ \E w \in Threads : WReadPage(w)
    \/ \E w \in Threads : WWord(w)
    \/ \E w \in Threads : WApply(w)
    \/ \E w \in Threads : WIncr(w)
    \/ \E w \in Threads : WFlush(w)
    \/ ScanJoin

(***************************************************************************)
(* One scanner thread, pointers always, non-pointers never, one error      *)
(***************************************************************************)
\* An anonymous writable mapping in the place of the heap.
ScanAnon == Region(FromNat(64), FromNat(80), TRUE, TRUE, FALSE, "")

\* The children scanned: the one of the scan model; one whose heap holds a
\* plain number before its first pointer; one whose first writable mapping is
\* anonymous.
OneChildren ==
    { [maps |-> ScanMaps, mem |-> ScanMem],
      [maps |-> ScanMaps,
       mem |-> (64 :> FromNat(5)) @@ (72 :> FromNat(128)) @@ ScanMem],
      [maps |-> <<Line(ScanAnon), Line(ScanStack), Line(ScanText), Line(ScanNone)>>,
       mem |-> ScanMem] }

\* ErrorInjectionStrategy(BitFlip, 1.0, 0.0, 1, seed) and one thread.
OneInit ==
    /\ \E c \in OneChildren : maps_file = c.maps /\ mem = c.mem
    /\ traced = FALSE
    /\ PMInit
    /\ type_ = "BitFlip"
    /\ pointer_error_rate_ = 100
    /\ non_pointer_error_rate_ = 0
    /\ quota_ = NewQuota(1)
    /\ changes_ = << >>
    /\ injections = 0
    /\ pre_calls = 0
    /\ post_calls = 0
    /\ pre_runner_ok = TRUE
    /\ scan_pc = "idle"
    /\ num_threads = 1
    /\ workers = [t \in Threads |-> IdleWorker]
    /\ thread_stats = [t \in Threads |-> ZeroStats]
    /\ scan_result = "none"
    /\ last_stats = ZeroStats
    /\ handled = << >>
    /\ scans_done = 0

(***************************************************************************)
(* Two runs with the same seed: rng_ is one engine shared by the threads   *)
(***************************************************************************)
SeedChoices == {1, 2}

\* The k-th value taken from rng_ (k counted from zero) as dist_ turns it
\* into a draw, in hundredths, and as bit_dist_ turns it into a bit index:
\* functions of the seed and of k only.
StreamDraw(sd, k) == (sd * 37 + k * 61) % 100
StreamBit(sd, k) == (sd * 11 + k * 7) % WordBits

\* The words thread t of n scans, in its order: its regions in turn, each
\* from its start upwards.
ThreadWords(n, t) ==
    LET regs == ThreadRegions(RefreshMemoryMap(ScanMaps).readable, n, t)
        WordsOf(r) ==
            [i \in 1 .. ((ToNat(r.end_addr) - ToNat(r.start_addr)) \div WordSize) |->
                [addr |-> ToNat(r.start_addr) + (i - 1) * WordSize, region |-> r]]
        RECURSIVE Concat(_)
        Concat(rs) == IF rs = << >> THEN << >> ELSE WordsOf(Head(rs)) \o Concat(Tail(rs))
    IN Concat(regs)

\* HandlePointer / HandleNonPointer on the word w in the run rs: inject_error
\* takes a value from rng_ for the draw unless the region is read-only, and
\* when it injects one more for the bit, two for the stuck-at modes; the
\* changed word reaches the child with its page.
HandleWord(rs, w) ==
    LET value == rs.mem[w.addr]
        isptr == IsLikelyPointer(RefreshMemoryMap(ScanMaps).all, value)
        rate == IF isptr THEN pointer_error_rate_ ELSE non_pointer_error_rate_
        type == determine_pointer_type(w.region)
        bit == StreamBit(seed, rs.pos + 1)
        bit2 == StreamBit(seed, rs.pos + 2)
        new == ApplyError(type_, value, bit, bit2)
        target == IncrementTarget(rs.quota, type)
    IN  IF ~w.region.is_writable THEN rs
        ELSE IF StreamDraw(seed, rs.pos) > rate \/ ~Available(rs.quota, type)
        THEN [rs EXCEPT !.pos = @ + 1]
        ELSE [rs EXCEPT
                !.pos = @ + (IF type_ = "BitFlip" THEN 2 ELSE 3),
                !.mem[w.addr] = new,
                !.changes = [a \in DOMAIN rs.changes \cup {w.addr} |->
                                IF a = w.addr
                                THEN [original |-> value, modified |-> new, type |-> type,
                                      region_name |-> w.region.mapping_name]
                                ELSE rs.changes[a]],
                !.quota = IncrementStore(rs.quota, target, rs.quota[target])]

\* The second run starts when the first has finished its scans.
SeedTurn(r) == r = 1 \/ runs[1].scans = MaxScans

\* A thread of run r hands its next word to the strategy.
SeedWord(r, t) ==
    /\ SeedTurn(r)
    /\ t < num_threads
    /\ runs[r].scans < MaxScans
    /\ runs[r].next[t] <= Len(ThreadWords(num_threads, t))
    /\ runs' = [runs EXCEPT ![r] =
                  [HandleWord(runs[r], ThreadWords(num_threads, t)[runs[r].next[t]])
                      EXCEPT !.next[t] = @ + 1]]
    /\ UNCHANGED <<seed, stratVars, scanVars, pmVars, childVars>>
    /\ UNCHANGED restOfSeed

\* ScanForPointers of run r returns once every thread has finished.
SeedJoin(r) ==
    /\ SeedTurn(r)
    /\ runs[r].scans < MaxScans
    /\ \A t \in Threads :
          t < num_threads => runs[r].next[t] > Len(ThreadWords(num_threads, t))
    /\ runs' = [runs EXCEPT ![r].scans = @ + 1,
                            ![r].next = [t \in Threads |-> 1],
                            ![r].after = Append(@, runs[r].changes)]
    /\ UNCHANGED <<seed, stratVars, scanVars, pmVars, childVars>>
    /\ UNCHANGED restOfSeed

\* Both runs: the same child, the same regions, the same strategy arguments.
SeedInit ==
    /\ maps_file = ScanMaps
    /\ mem = ScanMem
    /\ traced = FALSE
    /\ PMInit
    /\ type_ \in ErrorType
    /\ pointer_error_rate_ \in RateChoices
    /\ non_pointer_error_rate_ \in RateChoices
    /\ quota_ = NewQuota(0)
    /\ changes_ = << >>
    /\ injections = 0
    /\ pre_calls = 0
    /\ post_calls = 0
    /\ pre_runner_ok = TRUE
    /\ scan_pc = "off"
    /\ num_threads \in 1 .. MaxThreads
    /\ workers = [t \in Threads |-> IdleWorker]
    /\ thread_stats = [t \in Threads |-> ZeroStats]
    /\ scan_result = "none"
    /\ last_stats = ZeroStats
    /\ handled = << >>
    /\ scans_done = 0
    /\ seed \in SeedChoices
    /\ \E limit \in 1 .. MaxLimit :
        runs = [r \in {1, 2} |->
                  [pos |-> 0, next |-> [t \in Threads |-> 1], mem |-> ScanMem,
                   changes |-> << >>, quota |-> NewQuota(limit), scans |-> 0,
                   after |-> << >>]]

(***************************************************************************)
(* inject_error's use of quota_: Available, then Increment when permitted  *)
(***************************************************************************)
MaxAsks == 4

\* A word of some class is offered: Available(type) is consulted and, when it
\* permits, Increment(type) follows.
QuotaUse ==
    /\ ask_count < MaxAsks
    /\ \E type \in {"Heap", "Stack", "Static", "Unknown"} :
        LET target == IncrementTarget(quota_, type) IN
        /\ ask_type' = type
        /\ ask_ret' = Available(quota_, type)
        /\ quota_' = IF Available(quota_, type)
                     THEN IncrementStore(quota_, target,
                                         IF target = "none" THEN 0 ELSE quota_[target])
                     ELSE quota_
    /\ ask_quota' = quota_
    /\ ask_count' = ask_count + 1
    /\ UNCHANGED <<type_, pointer_error_rate_, non_pointer_error_rate_, changes_,
                   injections, pre_calls, post_calls, pre_runner_ok>>
    /\ UNCHANGED restOfAsk

\* ErrorInjectionStrategy(type, rates, error_limit, seed): only the wildcard
\* quota is set.
AskInit ==
    /\ type_ = "BitFlip"
    /\ pointer_error_rate_ \in RateChoices
    /\ non_pointer_error_rate_ \in RateChoices
    /\ \E limit \in 0 .. MaxLimit : quota_ = NewQuota(limit)
    /\ changes_ = << >>
    /\ injections = 0
    /\ pre_calls = 0
    /\ post_calls = 0
    /\ pre_runner_ok = TRUE
    /\ AskIdle

(***************************************************************************)
(* ProcessCheckpoint: the in-memory snapshot of the writable regions       *)
(***************************************************************************)
MaxCkOps == 6

\* A maps line of a device mapping: listed like any other, but neither
\* process_vm_readv/writev nor ptrace can transfer its words.
DeviceLine(region) == [parsed |-> TRUE, region |-> region, device |-> TRUE]
MemLine(region) == [parsed |-> TRUE, region |-> region, device |-> FALSE]

\* Whether the kernel can transfer the word at addr of the child.
Accessible(lines, addr) ==
    \E i \in 1 .. Len(lines) :
        /\ lines[i].parsed
        /\ ~lines[i].device
        /\ ToNat(lines[i].region.start_addr) <= addr
        /\ addr < ToNat(lines[i].region.end_addr)

\* The number of leading words of [addr, addr + n * WordSize) that transfer.
RECURSIVE Leading(_, _, _)
Leading(lines, addr, n) ==
    IF n = 0 \/ ~Accessible(lines, addr) THEN 0
    ELSE 1 + Leading(lines, addr + WordSize, n - 1)

\* A variant of the read that reports success without transferring anything.
ReadMemoryNothing(m, lines, attached, addr, size) ==
    [ok |-> attached, data |-> [i \in 1 .. (size \div WordSize) |-> ZeroWord]]

\* ProcessBase::ReadMemory: the buffer holds the words only when it succeeds.
ReadMemory(m, lines, attached, addr, size) ==
    LET n == size \div WordSize IN
    IF attached /\ Leading(lines, addr, n) = n
    THEN [ok |-> TRUE, data |-> PageOf(m, addr, size)]
    ELSE [ok |-> FALSE, data |-> << >>]

\* A variant of the write that combines the buffer with what is there.
WriteMemoryXor(m, lines, attached, addr, data) ==
    [ok |-> attached,
     mem |-> WritePage(m, addr, [i \in 1 .. Len(data) |->
                                    BitXor(data[i], m[addr + (i - 1) * WordSize])])]

\* ProcessBase::WriteMemory: the words before the first one that does not
\* transfer are written; it succeeds when all are.
WriteMemory(m, lines, attached, addr, data) ==
    IF ~attached THEN [ok |-> FALSE, mem |-> m]
    ELSE LET n == Leading(lines, addr, Len(data)) IN
         [ok |-> n = Len(data), mem |-> WritePage(m, addr, SubSeq(data, 1, n))]

\* The loop of CreateCheckpoint over checkpoint_regions_: one chunk per
\* writable region; a failed read abandons the snapshot.
RECURSIVE ReadChunks(_, _, _)
ReadChunks(m, lines, regs) ==
    IF regs = << >> THEN [ok |-> TRUE, data |-> << >>]
    ELSE LET r == Head(regs) IN
         IF ~r.is_writable THEN ReadChunks(m, lines, Tail(regs))
         ELSE LET rd == ReadMemory(m, lines, TRUE, ToNat(r.start_addr),
                                   ToNat(r.end_addr) - ToNat(r.start_addr))
              IN IF ~rd.ok THEN [ok |-> FALSE, data |-> << >>]
                 ELSE LET rest == ReadChunks(m, lines, Tail(regs)) IN
                      IF rest.ok
                      THEN [ok |-> TRUE,
                            data |-> <<[addr |-> r.start_addr, data |-> rd.data]>> \o rest.data]
                      ELSE rest

\* A variant of the layout test that does not look at the writable flag.
RegionsMatchNoFlag(a, b) ==
    /\ Len(a) = Len(b)
    /\ \A i \in 1 .. Len(a) :
        a[i].start_addr = b[i].start_addr /\ a[i].end_addr = b[i].end_addr

\* The four-iterator std::equal of RestoreCheckpoint.
RegionsMatch(a, b) ==
    /\ Len(a) = Len(b)
    /\ \A i \in 1 .. Len(a) :
        /\ a[i].start_addr = b[i].start_addr
        /\ a[i].end_addr = b[i].end_addr
        /\ a[i].is_writable = b[i].is_writable

\* The loop of RestoreCheckpoint over checkpoint_data_: it stops at the first
\* chunk that fails to write.
RECURSIVE WriteChunks(_, _, _)
WriteChunks(m, lines, chunks) ==
    IF chunks = << >> THEN [ok |-> TRUE, mem |-> m]
    ELSE LET w == WriteMemory(m, lines, TRUE, ToNat(Head(chunks).addr), Head(chunks).data) IN
         IF ~w.ok THEN [ok |-> FALSE, mem |-> w.mem]
         ELSE WriteChunks(w.mem, lines, Tail(chunks))

\* The bookkeeping every step on the checkpointed child does.
CkStep(op, ret) ==
    /\ ck_ops < MaxCkOps
    /\ ck_ops' = ck_ops + 1
    /\ ck_prev' = [op |-> ck_op, ret |-> ck_ret]
    /\ ck_op' = op
    /\ ck_ret' = ret
    /\ ck_before' = IF op = "restore" THEN mem ELSE << >>

\* ProcessCheckpoint::CreateCheckpoint; open is whether the maps file opens.
CkCreate ==
    \E open \in BOOLEAN :
        LET r == RefreshMemoryMap(maps_file)
            c == ReadChunks(mem, maps_file, r.readable)
            ret == is_attached /\ open /\ r.ok /\ c.ok
        IN  /\ CkStep("create", ret)
            /\ IF is_attached /\ open
               THEN all_regions' = r.all /\ readable_regions' = r.readable
               ELSE UNCHANGED <<all_regions, readable_regions>>
            /\ IF is_attached /\ open /\ r.ok
               THEN /\ checkpoint_data_' = c.data
                    /\ checkpoint_regions_' = IF c.ok THEN r.readable ELSE << >>
               ELSE UNCHANGED <<checkpoint_data_, checkpoint_regions_>>
            /\ ck_clean' = ret
            /\ ck_saved' = IF ret THEN mem ELSE << >>
    /\ UNCHANGED <<is_attached, childVars>>
    /\ UNCHANGED restOfCkpt

\* ProcessCheckpoint::RestoreCheckpoint
CkRestore ==
    /\ LET go == /\ is_attached
                 /\ checkpoint_data_ # << >>
                 /\ RegionsMatch(checkpoint_regions_, readable_regions)
           w == WriteChunks(mem, maps_file, checkpoint_data_)
       IN /\ CkStep("restore", go /\ w.ok)
          /\ mem' = IF go THEN w.mem ELSE mem
    /\ UNCHANGED <<maps_file, traced, pmVars, checkpoint_data_, checkpoint_regions_,
                   ck_saved, ck_clean>>
    /\ UNCHANGED restOfCkpt

CkAttachEnvs ==
    { AttachOk,
      [AttachOk EXCEPT !.maps_open = FALSE],
      [AttachOk EXCEPT !.ptrace_ok = FALSE] }

\* ProcessBase::Attach
CkAttach ==
    /\ \E e \in CkAttachEnvs :
        /\ PMAttach(e)
        /\ CkStep("attach", AttachOutcome(e, maps_file, all_regions, readable_regions).ret)
    /\ UNCHANGED <<checkpoint_data_, checkpoint_regions_, ck_saved, ck_clean>>
    /\ UNCHANGED restOfCkpt

\* ProcessBase::Detach
CkDetach ==
    /\ \E ok \in BOOLEAN : PMDetach(ok) /\ CkStep("detach", ok)
    /\ UNCHANGED <<checkpoint_data_, checkpoint_regions_, ck_saved, ck_clean>>
    /\ UNCHANGED restOfCkpt

\* The words a write may leave in a word of the child.
CkWords == {ZeroWord, {0, 63}}

\* The addresses of the words of the listed writable regions.
WritableWords(regs) ==
    {a \in DOMAIN mem :
        \E i \in 1 .. Len(regs) :
            /\ regs[i].is_writable
            /\ ToNat(regs[i].start_addr) <= a
            /\ a < ToNat(regs[i].end_addr)}

\* The child, running because no tracer has stopped it, stores to a word of
\* one of its writable mappings.
CkChildWrite ==
    /\ ~traced
    /\ \E a \in WritableWords(RefreshMemoryMap(maps_file).all), v \in CkWords :
        /\ Accessible(maps_file, a)
        /\ v # mem[a]
        /\ mem' = [mem EXCEPT ![a] = v]
    /\ CkStep("child", TRUE)
    /\ ck_clean' = FALSE
    /\ ck_saved' = << >>
    /\ UNCHANGED <<maps_file, traced, pmVars, checkpoint_data_, checkpoint_regions_>>
    /\ UNCHANGED restOfCkpt

\* The monitor, attached, writes one word of a region it has listed as
\* writable (as the scanner does with an injected word).
CkPoke ==
    /\ is_attached
    /\ \E a \in WritableWords(readable_regions), v \in CkWords :
        LET w == WriteMemory(mem, maps_file, is_attached, a, <<v>>) IN
        /\ v # mem[a]
        /\ mem' = w.mem
        /\ CkStep("write", w.ok)
    /\ ck_clean' = FALSE
    /\ ck_saved' = << >>
    /\ UNCHANGED <<maps_file, traced, pmVars, checkpoint_data_, checkpoint_regions_>>
    /\ UNCHANGED restOfCkpt

CkData == Region(FromNat(64), FromNat(80), TRUE, TRUE, FALSE, "/bin/app")
CkHeap == Region(FromNat(96), FromNat(104), TRUE, TRUE, FALSE, "[heap]")
CkStack == Region(FromNat(128), FromNat(136), TRUE, TRUE, FALSE, "[stack]")
CkStackRO == Region(FromNat(128), FromNat(136), TRUE, FALSE, FALSE, "[stack]")
CkDevice == Region(FromNat(160), FromNat(168), TRUE, TRUE, FALSE, "/dev/mem")
CkText == Region(FromNat(192), FromNat(200), TRUE, FALSE, TRUE, "/bin/app")

\* The layouts the child moves between: the plain one, the stack made
\* read-only, a heap added, a device mapped.
CkLayouts ==
    { <<MemLine(CkData), MemLine(CkStack), MemLine(CkText)>>,
      <<MemLine(CkData), MemLine(CkStackRO), MemLine(CkText)>>,
      <<MemLine(CkData), MemLine(CkHeap), MemLine(CkStack), MemLine(CkText)>>,
      <<MemLine(CkData), MemLine(CkStack), DeviceLine(CkDevice), MemLine(CkText)>> }

\* The child, running, maps, unmaps or reprotects part of its address space.
CkChildRemap ==
    /\ ~traced
    /\ maps_file' \in CkLayouts \ {maps_file}
    /\ CkStep("remap", TRUE)
    /\ ck_clean' = FALSE
    /\ ck_saved' = << >>
    /\ UNCHANGED <<mem, traced, pmVars, checkpoint_data_, checkpoint_regions_>>
    /\ UNCHANGED restOfCkpt

CkMem ==
    (64 :> {0, 63}) @@ (72 :> ZeroWord) @@ (96 :> ZeroWord) @@ (128 :> {0, 63}) @@
    (160 :> ZeroWord) @@ (192 :> FromNat(64))

CkptInit ==
    /\ maps_file \in CkLayouts
    /\ mem = CkMem
    /\ traced = FALSE
    /\ PMInit
    /\ CkptIdle

(***************************************************************************)
(* Command mode: SendCommand in the child, HandleCommandSignal and         *)
(* MonitorController::HandleCommandMode in the monitor                     *)
(***************************************************************************)
MaxCommands == MaxScans

CmdParams == { <<ZeroWord, ZeroWord>>, <<FromNat(1), PARAM_MASK>> }

\* SendCommand: g_response_received is cleared and the CommandInfo is built.
ChStart ==
    /\ ch_pc = "idle"
    /\ child_alive /\ ~traced
    /\ sent < MaxCommands
    /\ \E k \in MonitorCommand, ps \in CmdParams :
        ch_cmd' = [cmd |-> k, param1 |-> ps[1], param2 |-> ps[2]]
    /\ g_response_received' = FALSE
    /\ ch_pc' = "queue"
    /\ ch_ret' = "none"
    /\ sent' = sent + 1
    /\ UNCHANGED <<child_alive, sig_q, resp_q, g_last_cmd_data, g_command_pending, mon_pc,
                   cmd_info, should_detach_, success, mon_ret, handler_runs, recorded,
                   dispatched, responses, seq>>
    /\ UNCHANGED <<childVars, pmVars, stratVars, scanVars>>
    /\ UNCHANGED restOfCmd

\* SendCommand: sigqueue of MONITOR_REQUEST_SIGNAL (SIGUSR1, a standard
\* signal: one instance at most is kept pending) with the packed command. It
\* fails once the monitor is gone.
ChQueue ==
    /\ ch_pc = "queue"
    /\ child_alive /\ ~traced
    /\ IF mon_pc = "exited"
       THEN /\ ch_ret' = "false"
            /\ ch_pc' = "idle"
            /\ UNCHANGED sig_q
       ELSE /\ sig_q' = IF sig_q = << >> THEN <<Pack(ch_cmd)>> ELSE sig_q
            /\ ch_pc' = "wait"
            /\ UNCHANGED ch_ret
    /\ seq' = IF mon_pc # "exited" /\ sig_q = << >> THEN [seq EXCEPT !.q = sent] ELSE seq
    /\ UNCHANGED <<ch_cmd, child_alive, g_response_received, resp_q, g_last_cmd_data,
                   g_command_pending, mon_pc, cmd_info, should_detach_, success, mon_ret,
                   sent, handler_runs, recorded, dispatched, responses>>
    /\ UNCHANGED <<childVars, pmVars, stratVars, scanVars>>
    /\ UNCHANGED restOfCmd

\* MonitorResponseHandler, run by the child when the response is delivered.
ChResponse ==
    /\ resp_q
    /\ child_alive /\ ~traced
    /\ g_response_received' = TRUE
    /\ resp_q' = FALSE
    /\ UNCHANGED <<ch_pc, ch_cmd, ch_ret, child_alive, sig_q, g_last_cmd_data,
                   g_command_pending, mon_pc, cmd_info, should_detach_, success, mon_ret,
                   sent, handler_runs, recorded, dispatched, responses, seq>>
    /\ UNCHANGED <<childVars, pmVars, stratVars, scanVars>>
    /\ UNCHANGED restOfCmd

\* SendCommand: the wait loop sees g_response_received and returns true.
ChWake ==
    /\ ch_pc = "wait"
    /\ child_alive /\ ~traced
    /\ g_response_received
    /\ ch_ret' = "true"
    /\ ch_pc' = "idle"
    /\ UNCHANGED <<ch_cmd, child_alive, g_response_received, sig_q, resp_q, g_last_cmd_data,
                   g_command_pending, mon_pc, cmd_info, should_detach_, success, mon_ret,
                   sent, handler_runs, recorded, dispatched, responses, seq>>
    /\ UNCHANGED <<childVars, pmVars, stratVars, scanVars>>
    /\ UNCHANGED restOfCmd

\* A wait loop without the timeout test, as WaitForResponse has it.
ChWaitsOn ==
    /\ ch_pc = "wait"
    /\ FALSE
    /\ UNCHANGED <<cmdVars, childVars, pmVars, stratVars, scanVars>>
    /\ UNCHANGED restOfCmd

\* SendCommand: the wait loop finds TIMEOUT elapsed and returns false.
ChTimeout ==
    /\ ch_pc = "wait"
    /\ child_alive /\ ~traced
    /\ ~g_response_received
    /\ ch_ret' = "false"
    /\ ch_pc' = "idle"
    /\ UNCHANGED <<ch_cmd, child_alive, g_response_received, sig_q, resp_q, g_last_cmd_data,
                   g_command_pending, mon_pc, cmd_info, should_detach_, success, mon_ret,
                   sent, handler_runs, recorded, dispatched, responses, seq>>
    /\ UNCHANGED <<childVars, pmVars, stratVars, scanVars>>
    /\ UNCHANGED restOfCmd

\* The child returns from main between two commands.
ChExit ==
    /\ ch_pc = "idle"
    /\ child_alive /\ ~traced
    /\ child_alive' = FALSE
    /\ UNCHANGED <<ch_pc, ch_cmd, ch_ret, g_response_received, sig_q, resp_q,
                   g_last_cmd_data, g_command_pending, mon_pc, cmd_info, should_detach_,
                   success, mon_ret, sent, handler_runs, recorded, dispatched, responses, seq>>
    /\ UNCHANGED <<childVars, pmVars, stratVars, scanVars>>
    /\ UNCHANGED restOfCmd

\* HandleCommandSignal(int, siginfo_t *, void *), run by the monitor when the
\* request is delivered: a null si_ptr makes it return at once.
HandleCommandSignal ==
    /\ mon_pc # "exited"
    /\ sig_q # << >>
    /\ sig_q' = << >>
    /\ handler_runs' = handler_runs + 1
    /\ IF Head(sig_q) = ZeroWord
       THEN UNCHANGED <<g_last_cmd_data, g_command_pending, recorded>>
       ELSE /\ g_last_cmd_data' = Head(sig_q)
            /\ g_command_pending' = TRUE
            /\ recorded' = recorded + 1
    /\ seq' = IF Head(sig_q) = ZeroWord THEN seq ELSE [seq EXCEPT !.last = seq.q]
    /\ UNCHANGED <<ch_pc, ch_cmd, ch_ret, child_alive, g_response_received, resp_q, mon_pc,
                   cmd_info, should_detach_, success, mon_ret, sent, dispatched, responses>>
    /\ UNCHANGED <<childVars, pmVars, stratVars, scanVars>>
    /\ UNCHANGED restOfCmd

\* A loop test that looks at the pending flag before the child.
MonCheckPendingFirst ==
    /\ mon_pc = "loop"
    /\ ~child_alive \/ g_command_pending
    /\ IF g_command_pending
       THEN mon_pc' = "clear" /\ UNCHANGED mon_ret
       ELSE mon_pc' = "exited" /\ mon_ret' = "true"
    /\ UNCHANGED <<ch_pc, ch_cmd, ch_ret, child_alive, g_response_received, sig_q, resp_q,
                   g_last_cmd_data, g_command_pending, cmd_info, should_detach_, success,
                   sent, handler_runs, recorded, dispatched, responses, seq>>
    /\ UNCHANGED <<childVars, pmVars, stratVars, scanVars>>
    /\ UNCHANGED restOfCmd

\* HandleCommandMode: CheckChildRunning, then IsCommandPending. The loop
\* returns true once the child is gone; with nothing pending it sleeps.
MonCheck ==
    /\ mon_pc = "loop"
    /\ ~child_alive \/ g_command_pending
    /\ IF ~child_alive
       THEN mon_pc' = "exited" /\ mon_ret' = "true"
       ELSE mon_pc' = "clear" /\ UNCHANGED mon_ret
    /\ UNCHANGED <<ch_pc, ch_cmd, ch_ret, child_alive, g_response_received, sig_q, resp_q,
                   g_last_cmd_data, g_command_pending, cmd_info, should_detach_, success,
                   sent, handler_runs, recorded, dispatched, responses, seq>>
    /\ UNCHANGED <<childVars, pmVars, stratVars, scanVars>>
    /\ UNCHANGED restOfCmd

\* HandleCommandMode: ClearCommandPending
MonClear ==
    /\ mon_pc = "clear"
    /\ g_command_pending' = FALSE
    /\ mon_pc' = "process"
    /\ UNCHANGED <<ch_pc, ch_cmd, ch_ret, child_alive, g_response_received, sig_q, resp_q,
                   g_last_cmd_data, cmd_info, should_detach_, success, mon_ret,
                   sent, handler_runs, recorded, dispatched, responses, seq>>
    /\ UNCHANGED <<childVars, pmVars, stratVars, scanVars>>
    /\ UNCHANGED restOfCmd

CmdAttachEnvs ==
    { AttachOk,
      [AttachOk EXCEPT !.maps_open = FALSE],
      [AttachOk EXCEPT !.ptrace_ok = FALSE] }

\* ProcessCommand: GetLastCommand and the AttachGuard. Without an attachment
\* it returns false, and so does the loop.
MonProcess ==
    /\ mon_pc = "process"
    /\ cmd_info' = Unpack(g_last_cmd_data)
    /\ seq' = [seq EXCEPT !.cmd = seq.last]
    /\ IF is_attached
       THEN /\ should_detach_' = FALSE
            /\ UNCHANGED <<pmVars, childVars>>
       ELSE \E e \in CmdAttachEnvs :
              /\ PMAttach(e)
              /\ should_detach_' =
                    AttachOutcome(e, maps_file, all_regions, readable_regions).ret
    /\ IF is_attached'
       THEN mon_pc' = "dispatch" /\ UNCHANGED mon_ret
       ELSE mon_pc' = "exited" /\ mon_ret' = "false"
    /\ UNCHANGED <<ch_pc, ch_cmd, ch_ret, child_alive, g_response_received, sig_q, resp_q,
                   g_last_cmd_data, g_command_pending, success,
                   sent, handler_runs, recorded, dispatched, responses>>
    /\ UNCHANGED <<stratVars, scanVars>>
    /\ UNCHANGED restOfCmd

\* What a call meets: the checkpoint directory (present, absent, or present
\* but not openable), whether mkdir can create it, criu_init_opts,
\* criu_dump / criu_restore, PTRACE_DETACH, and what the re-Attach meets.
CriuEnvs ==
    [dir : {"ok", "absent", "unopenable"}, mkdir_ok : BOOLEAN, init_ok : BOOLEAN,
     snapshot_ok : BOOLEAN, detach_ok : BOOLEAN, attach : CmdAttachEnvs]

\* A variant that reattaches only after a snapshot that succeeded.
ReattachesAfterSnapshotOnly(op, env, attached) ==
    attached /\ env.detach_ok /\ env.dir = "ok" /\ env.init_ok /\ env.snapshot_ok

\* Whether the call runs the Attach under cond_reattach: it was attached at
\* entry and did not leave by `goto done` (a Detach that failed, or, in
\* RestoreCheckpoint, a checkpoint directory that does not exist).
Reattaches(op, env, attached) ==
    /\ attached
    /\ env.detach_ok
    /\ ~(op = "RestoreCheckpoint" /\ env.dir = "absent")

\* A variant that goes on to the snapshot whatever Detach returned.
ProceedsAnyway(env, attached) == TRUE

\* if (attached) { if (!Detach()) goto done; }: whether the call gets past
\* its Detach.
PastDetach(env, attached) == attached => env.detach_ok

\* The body shared by the two functions, which differ in the first test
\* (access() in RestoreCheckpoint, mkdir in CreateCheckpoint): what the call
\* returns, what its Detach and Attach returned, IsAttached() when the
\* snapshot call was made, and the state it leaves.
CriuOutcome(op, env, attached, tr, lines, all, readable) ==
    LET absent == op = "RestoreCheckpoint" /\ env.dir = "absent"
        detach_called == attached /\ ~absent
        detached == detach_called /\ env.detach_ok
        dir_fd == IF op = "CreateCheckpoint"
                  THEN env.dir = "ok" \/ (env.dir = "absent" /\ env.mkdir_ok)
                  ELSE env.dir = "ok"
        snapshot_called == ~absent /\ PastDetach(env, attached) /\ dir_fd /\ env.init_ok
        reattach == Reattaches(op, env, attached)
        o == AttachOutcome(env.attach, lines, all, readable)
    IN  [ret |-> snapshot_called /\ env.snapshot_ok,
         detach |-> IF ~detach_called THEN "none"
                    ELSE IF env.detach_ok THEN "true" ELSE "false",
         attach |-> IF ~reattach THEN "none" ELSE IF o.ret THEN "true" ELSE "false",
         snapshot |-> IF ~snapshot_called THEN "none"
                      ELSE IF attached /\ ~detached THEN "attached" ELSE "detached",
         is_attached |-> IF reattach THEN o.is_attached
                         ELSE IF detached THEN FALSE ELSE attached,
         traced |-> IF reattach THEN o.traced ELSE IF detached THEN FALSE ELSE tr,
         all |-> IF reattach THEN o.all ELSE all,
         readable |-> IF reattach THEN o.readable ELSE readable]

\* ProcessCommand: the switch. NoOp does nothing; Checkpoint and Restore
\* return what ProcessManager::CreateCheckpoint and RestoreCheckpoint return,
\* which detach for the snapshot and attach again; InjectErrors and Scan
\* start ScanForPointers and succeed whatever it returns.
MonDispatch ==
    /\ mon_pc = "dispatch"
    /\ dispatched' = dispatched + 1
    /\ seq' = [seq EXCEPT !.disp = Append(@, seq.cmd)]
    /\ IF cmd_info.cmd \in {InjectErrors, Scan}
       THEN /\ ScanBegin
            /\ success' = TRUE
            /\ mon_pc' = "scanning"
       ELSE /\ IF cmd_info.cmd \in {Checkpoint, Restore}
               THEN \E env \in CriuEnvs :
                      LET op == IF cmd_info.cmd = Checkpoint THEN "CreateCheckpoint"
                                ELSE "RestoreCheckpoint"
                          o == CriuOutcome(op, env, is_attached, traced, maps_file,
                                           all_regions, readable_regions)
                      IN  /\ success' = o.ret
                          /\ is_attached' = o.is_attached
                          /\ traced' = o.traced
                          /\ all_regions' = o.all
                          /\ readable_regions' = o.readable
                          /\ UNCHANGED <<maps_file, mem>>
               ELSE /\ success' = TRUE
                    /\ UNCHANGED <<childVars, pmVars>>
            /\ mon_pc' = "respond"
            /\ UNCHANGED <<stratVars, scanVars>>
    /\ UNCHANGED <<ch_pc, ch_cmd, ch_ret, child_alive, g_response_received, sig_q, resp_q,
                   g_last_cmd_data, g_command_pending, cmd_info, should_detach_, mon_ret,
                   sent, handler_runs, recorded, responses>>
    /\ UNCHANGED restOfCmd

\* HandleScan / HandleInjectErrors: ScanForPointers has returned.
MonScanDone ==
    /\ mon_pc = "scanning"
    /\ scan_pc = "idle"
    /\ mon_pc' = "respond"
    /\ UNCHANGED <<ch_pc, ch_cmd, ch_ret, child_alive, g_response_received, sig_q, resp_q,
                   g_last_cmd_data, g_command_pending, cmd_info, should_detach_, success,
                   mon_ret, sent, handler_runs, recorded, dispatched, responses, seq>>
    /\ UNCHANGED <<childVars, pmVars, stratVars, scanVars>>
    /\ UNCHANGED restOfCmd

\* ProcessCommand: SendResponse (sigqueue of SIGUSR2 to the child, its result
\* only logged).
MonRespond ==
    /\ mon_pc = "respond"
    /\ resp_q' = (resp_q \/ child_alive)
    /\ responses' = responses + (IF child_alive THEN 1 ELSE 0)
    /\ seq' = IF child_alive THEN [seq EXCEPT !.answered = Append(@, seq.cmd)] ELSE seq
    /\ mon_pc' = "return"
    /\ UNCHANGED <<ch_pc, ch_cmd, ch_ret, child_alive, g_response_received, sig_q,
                   g_last_cmd_data, g_command_pending, cmd_info, should_detach_, success,
                   mon_ret, sent, handler_runs, recorded, dispatched>>
    /\ UNCHANGED <<childVars, pmVars, stratVars, scanVars>>
    /\ UNCHANGED restOfCmd

\* ProcessCommand: the return of success and the guard's destructor (Detach
\* does nothing on a manager that is not attached); a command that failed
\* ends the loop.
MonReturn ==
    /\ mon_pc = "return"
    /\ IF should_detach_ /\ is_attached
       THEN PMDetach(TRUE)
       ELSE UNCHANGED <<pmVars, childVars>>
    /\ IF success
       THEN mon_pc' = "loop" /\ UNCHANGED mon_ret
       ELSE mon_pc' = "exited" /\ mon_ret' = "false"
    /\ UNCHANGED <<ch_pc, ch_cmd, ch_ret, child_alive, g_response_received, sig_q, resp_q,
                   g_last_cmd_data, g_command_pending, cmd_info, should_detach_, success,
                   sent, handler_runs, recorded, dispatched, responses, seq>>
    /\ UNCHANGED <<stratVars, scanVars>>
    /\ UNCHANGED restOfCmd

\* Command mode: the child of the scan model, the monitor about to enter its
\* loop with a one-thread scanner.
CmdInit ==
    /\ maps_file = ScanMaps
    /\ mem = ScanMem
    /\ traced = FALSE
    /\ PMInit
    /\ type_ = "BitFlip"
    /\ pointer_error_rate_ = 100
    /\ non_pointer_error_rate_ = 0
    /\ quota_ = NewQuota(1)
    /\ changes_ = << >>
    /\ injections = 0
    /\ pre_calls = 0
    /\ post_calls = 0
    /\ pre_runner_ok = TRUE
    /\ scan_pc = "idle"
    /\ num_threads = 1
    /\ workers = [t \in Threads |-> IdleWorker]
    /\ thread_stats = [t \in Threads |-> ZeroStats]
    /\ scan_result = "none"
    /\ last_stats = ZeroStats
    /\ handled = << >>
    /\ scans_done = 0
    /\ ch_pc = "idle"
    /\ ch_cmd = NoCommand
    /\ ch_ret = "none"
    /\ child_alive = TRUE
    /\ g_response_received = FALSE
    /\ sig_q = << >>
    /\ resp_q = FALSE
    /\ g_last_cmd_data = ZeroWord
    /\ g_command_pending = FALSE
    /\ mon_pc = "loop"
    /\ cmd_info = NoCommand
    /\ should_detach_ = FALSE
    /\ success = TRUE
    /\ mon_ret = "none"
    /\ sent = 0
    /\ handler_runs = 0
    /\ recorded = 0
    /\ dispatched = 0
    /\ responses = 0
    /\ seq = NoRequests

(***************************************************************************)
(* Attach, Detach and AttachGuard used directly on one ProcessManager      *)
(***************************************************************************)
\* ProcessManager::Attach: true at once when already attached.
Attach(e) ==
    IF is_attached THEN UNCHANGED <<pmVars, childVars>> ELSE PMAttach(e)

AttachReturns(e) ==
    IF is_attached THEN TRUE
    ELSE AttachOutcome(e, maps_file, all_regions, readable_regions).ret

\* ProcessManager::Detach: true at once when already detached.
Detach(ok) ==
    IF ~is_attached THEN UNCHANGED <<pmVars, childVars>> ELSE PMDetach(ok)

DetachReturns(ok) == IF ~is_attached THEN TRUE ELSE ok

\* A variant of the guard that always detaches.
ShouldDetachAlways(attached, ret) == TRUE

\* AttachGuard::AttachGuard: should_detach_ is false unless the constructor
\* called Attach, and then it is what Attach returned.
ShouldDetach(attached, ret) == IF ~attached THEN ret ELSE FALSE

\* The record of a call: the call before it, and the state it started in.
AtStep(op, ret, e) ==
    /\ at_op' = op
    /\ at_ret' = ret
    /\ at_prev' = [op |-> at_op, ret |-> at_ret]
    /\ at_env' = e
    /\ at_before' = [is_attached |-> is_attached, traced |-> traced]

AtAttach ==
    /\ ~guard_live
    /\ \E e \in AttachEnvs :
        /\ Attach(e)
        /\ AtStep("Attach", AttachReturns(e), e)
    /\ UNCHANGED <<guard_live, should_detach_>>
    /\ UNCHANGED restOfAtt

AtDetach ==
    /\ ~guard_live
    /\ \E ok \in BOOLEAN :
        /\ Detach(ok)
        /\ AtStep("Detach", DetachReturns(ok), at_env)
    /\ UNCHANGED <<guard_live, should_detach_>>
    /\ UNCHANGED restOfAtt

\* AttachGuard guard(process): the recorded result is what Attach returned,
\* FALSE when the constructor did not call it.
GuardCtor ==
    /\ ~guard_live
    /\ \E e \in AttachEnvs :
        /\ Attach(e)
        /\ should_detach_' = ShouldDetach(is_attached, AttachReturns(e))
        /\ AtStep(IF is_attached THEN "ctor" ELSE "ctor+Attach",
                  IF is_attached THEN FALSE ELSE AttachReturns(e), e)
    /\ guard_live' = TRUE
    /\ UNCHANGED restOfAtt

\* AttachGuard::~AttachGuard: the recorded result is what Detach returned,
\* FALSE when the destructor did not call it.
GuardDtor ==
    /\ guard_live
    /\ IF should_detach_
       THEN \E ok \in BOOLEAN :
              /\ Detach(ok)
              /\ AtStep("dtor+Detach", DetachReturns(ok), at_env)
       ELSE /\ UNCHANGED <<pmVars, childVars>>
            /\ AtStep("dtor", FALSE, at_env)
    /\ guard_live' = FALSE
    /\ UNCHANGED should_detach_
    /\ UNCHANGED restOfAtt

\* A child whose maps file lists regions, or one whose maps file is empty.
AttInit ==
    /\ maps_file \in {ScanMaps, << >>}
    /\ mem = ScanMem
    /\ traced = FALSE
    /\ PMInit
    /\ AttIdle

(***************************************************************************)
(* ProcessManager::ReadMemory and WriteMemory, byte by byte                *)
(***************************************************************************)
MaxRwCalls == 2

\* The protection of the page of byte a. The child has one-word pages; "rw"
\* allows everything; "ro" reads, and writes forced by ptrace only; "none"
\* only what ptrace forces; "unmapped", and every byte beyond the child's
\* pages, nothing.
ProtOf(pr, a) ==
    IF (a \div WordSize) \in DOMAIN pr THEN pr[a \div WordSize] ELSE "unmapped"

\* process_vm_readv / process_vm_writev over [a, a + n): the number of leading
\* bytes it can transfer, -1 when it can transfer none.
ProcessVm(pr, a, n, write) ==
    LET ByteOk(b) ==
            IF write THEN ProtOf(pr, b) = "rw" ELSE ProtOf(pr, b) \in {"rw", "ro"}
        RECURSIVE VmLeading(_, _)
        VmLeading(b, k) ==
            IF k = 0 \/ ~ByteOk(b) THEN 0 ELSE 1 + VmLeading(b + 1, k - 1)
        done == VmLeading(a, n)
    IN IF done = 0 THEN -1 ELSE done

\* The leading words of the n at a that PTRACE_PEEKDATA / PTRACE_POKEDATA
\* transfer.
RECURSIVE PtraceLeading(_, _, _)
PtraceLeading(pr, a, n) ==
    IF n = 0 \/ \E b \in a .. (a + WordSize - 1) : ProtOf(pr, b) = "unmapped" THEN 0
    ELSE 1 + PtraceLeading(pr, a + WordSize, n - 1)

\* words = (size + sizeof(long) - 1) / sizeof(long)
WordsFor(size) == (size + WordSize - 1) \div WordSize

\* The child's bytes with the bytes of data stored from a on.
StoreBytes(bytes, a, data) ==
    [b \in DOMAIN bytes |->
        IF a <= b /\ b < a + Len(data) THEN data[b - a + 1] ELSE bytes[b]]

\* ProcessManager::ReadMemory(addr, buffer, size): what it returns, the bytes
\* it stored in the first size bytes of the buffer, what the scatter-gather
\* call returned and the path it ended on.
PMReadMemory(bytes, pr, attached, addr, size) ==
    IF ~attached THEN [ok |-> FALSE, buf |-> << >>, vm |-> 0, path |-> "none"]
    ELSE LET vm == ProcessVm(pr, addr, size, FALSE)
             got == PtraceLeading(pr, addr, WordsFor(size))
         IN IF vm # -1
            THEN [ok |-> vm = size, buf |-> [i \in 1 .. vm |-> bytes[addr + i - 1]],
                  vm |-> vm, path |-> "vm"]
            ELSE [ok |-> got = WordsFor(size),
                  buf |-> [i \in 1 .. Min(size, got * WordSize) |-> bytes[addr + i - 1]],
                  vm |-> vm, path |-> "ptrace"]

\* ProcessManager::WriteMemory(addr, buffer, size) with buffer = buf and
\* size = Len(buf). The word path pokes ptr[0 .. words-1]: the bytes of the
\* last word past the end of the buffer are whatever follows it in the
\* monitor's memory (stray). The tail then re-reads the word just poked,
\* patches its low bytes and pokes it again.
PMWriteMemory(bytes, pr, attached, addr, buf, stray) ==
    IF ~attached THEN [ok |-> FALSE, bytes |-> bytes, vm |-> 0, path |-> "none"]
    ELSE LET size == Len(buf)
             vm == ProcessVm(pr, addr, size, TRUE)
             words == WordsFor(size)
             got == PtraceLeading(pr, addr, words)
             ptr == [i \in 1 .. (words * WordSize) |-> IF i <= size THEN buf[i] ELSE stray]
         IN IF vm # -1
            THEN [ok |-> vm = size, bytes |-> StoreBytes(bytes, addr, SubSeq(buf, 1, vm)),
                  vm |-> vm, path |-> "vm"]
            ELSE [ok |-> got = words,
                  bytes |-> StoreBytes(bytes, addr, SubSeq(ptr, 1, got * WordSize)),
                  vm |-> vm, path |-> "ptrace"]

\* The calls made: a few addresses, aligned or not, and sizes that are and
\* are not multiples of the word; the bytes that may follow the buffer in
\* the monitor's memory.
RwAddrs == {0, 4, 8}
RwSizes == {1, 5, 8, 12, 16}
StrayBytes == {0, 255}

RwAttach ==
    /\ rw_calls < MaxRwCalls
    /\ Attach(AttachOk)
    /\ UNCHANGED rwVars
    /\ UNCHANGED restOfRw

RwDetach ==
    /\ is_attached
    /\ Detach(TRUE)
    /\ UNCHANGED rwVars
    /\ UNCHANGED restOfRw

RwRead ==
    /\ rw_calls < MaxRwCalls
    /\ \E a \in RwAddrs, n \in RwSizes :
        LET r == PMReadMemory(child_bytes, prot, is_attached, a, n) IN
        /\ rw_op' = "read"
        /\ rw_addr' = a
        /\ rw_size' = n
        /\ rw_buf' = r.buf
        /\ rw_vm' = r.vm
        /\ rw_path' = r.path
        /\ rw_ret' = r.ok
    /\ rw_before' = child_bytes
    /\ rw_calls' = rw_calls + 1
    /\ UNCHANGED <<child_bytes, prot, pmVars, childVars>>
    /\ UNCHANGED restOfRw

RwWrite ==
    /\ rw_calls < MaxRwCalls
    /\ \E a \in RwAddrs, n \in RwSizes, stray \in StrayBytes :
        LET buf == [i \in 1 .. n |-> 100 + i]
            r == PMWriteMemory(child_bytes, prot, is_attached, a, buf, stray)
        IN
        /\ rw_op' = "write"
        /\ rw_addr' = a
        /\ rw_size' = n
        /\ rw_buf' = buf
        /\ rw_vm' = r.vm
        /\ rw_path' = r.path
        /\ rw_ret' = r.ok
        /\ child_bytes' = r.bytes
    /\ rw_before' = child_bytes
    /\ rw_calls' = rw_calls + 1
    /\ UNCHANGED <<prot, pmVars, childVars>>
    /\ UNCHANGED restOfRw

RwInit ==
    /\ maps_file = ScanMaps
    /\ mem = ScanMem
    /\ traced = FALSE
    /\ PMInit
    /\ child_bytes = [b \in 0 .. (2 * WordSize - 1) |-> b + 1]
    /\ prot \in [0 .. 1 -> {"rw", "ro", "none", "unmapped"}]
    /\ rw_op = "none"
    /\ rw_addr = 0
    /\ rw_size = 0
    /\ rw_buf = << >>
    /\ rw_before = << >>
    /\ rw_vm = 0
    /\ rw_path = "none"
    /\ rw_ret = FALSE
    /\ rw_calls = 0

(***************************************************************************)
(* Periodic mode of the monitor controller                                 *)
(***************************************************************************)
MaxPerScans == 3

\* std::optional<size_t> iteration_limit: unset, or a cap.
LimitChoices ==
    {[has |-> FALSE, value |-> 0]} \cup {[has |-> TRUE, value |-> k] : k \in 0..2}

\* The handler returns: the guard, if one is live, is destroyed on the way.
PerReturn(ret, failed) ==
    /\ per_pc' = "returned"
    /\ per_ret' = ret
    /\ per_failed' = failed

\* The initial delay, slept before the loop.
PerDelay ==
    /\ per_pc = "delay"
    /\ per_pc' = "check"
    /\ UNCHANGED <<iteration_limit, iterations, per_scans, per_ret, per_child, per_failed>>
    /\ UNCHANGED restOfPer

\* while (CheckChildRunning()): waitpid(WNOHANG) reports an error, a child
\* that terminated, or nothing; the loop goes on only on nothing.
PerCheck ==
    /\ per_pc = "check"
    /\ \E w \in (IF per_child THEN {"running", "error"} ELSE {"exited", "error"}) :
        IF w = "running"
        THEN /\ per_pc' = "guard"
             /\ UNCHANGED <<per_ret, per_failed>>
        ELSE PerReturn("true", per_failed)
    /\ UNCHANGED <<iteration_limit, iterations, per_scans, per_child>>
    /\ UNCHANGED restOfPer

\* AttachGuard guard(process_manager_); if (!guard.Success()) return false;
PerGuard ==
    /\ per_pc = "guard"
    /\ \E ok \in BOOLEAN :
        IF ok
        THEN /\ per_pc' = "scan"
             /\ per_failed' = "none"
             /\ UNCHANGED per_ret
        ELSE PerReturn("false", "attach")
    /\ UNCHANGED <<iteration_limit, iterations, per_scans, per_child>>
    /\ UNCHANGED restOfPer

\* ScanForPointers under the guard: no statistics ends the handler with
\* false; otherwise iterations is counted and only then compared with the cap.
PerScan ==
    /\ per_pc = "scan"
    /\ per_scans < MaxPerScans
    /\ per_scans' = per_scans + 1
    /\ \E has_value \in BOOLEAN :
        IF ~has_value
        THEN PerReturn("false", "scan") /\ UNCHANGED iterations
        ELSE /\ iterations' = iterations + 1
             /\ IF iteration_limit.has /\ iterations + 1 >= iteration_limit.value
                THEN PerReturn("true", per_failed)
                ELSE /\ per_pc' = "sleep"
                     /\ UNCHANGED <<per_ret, per_failed>>
    /\ UNCHANGED <<iteration_limit, per_child>>
    /\ UNCHANGED restOfPer

\* std::this_thread::sleep_for(config_.interval) at the end of the loop body.
PerSleep ==
    /\ per_pc = "sleep"
    /\ per_pc' = "check"
    /\ UNCHANGED <<iteration_limit, iterations, per_scans, per_ret, per_child, per_failed>>
    /\ UNCHANGED restOfPer

\* The child terminates on its own while the handler runs.
PerChildExit ==
    /\ per_pc \notin {"idle", "returned"}
    /\ per_child
    /\ per_child' = FALSE
    /\ UNCHANGED <<per_pc, iteration_limit, iterations, per_scans, per_ret, per_failed>>
    /\ UNCHANGED restOfPer

\* HandlePeriodicMode entered with any cap and any initial delay.
PerInit ==
    /\ per_pc \in {"delay", "check"}
    /\ iteration_limit \in LimitChoices
    /\ iterations = 0
    /\ per_scans = 0
    /\ per_ret = "none"
    /\ per_child = TRUE
    /\ per_failed = "none"

(***************************************************************************)
(* The preloaded in-process scanner: signal_handler and scanner_worker     *)
(***************************************************************************)
MaxSignals == 4

\* signal_handler, run on each delivery of SIGUSR1, whatever the worker is
\* doing.
InjSignal ==
    /\ inj_pc # "none"
    /\ delivered < MaxSignals
    /\ g_scan_requested' = TRUE
    /\ delivered' = delivered + 1
    /\ UNCHANGED <<g_scanner_running, inj_pc, served, reports>>
    /\ UNCHANGED restOfInj

\* scanner_worker: the loop test and the test of the request flag. A set
\* flag starts a scan; a clear one leads to the sleep.
InjPoll ==
    /\ inj_pc = "poll"
    /\ IF ~g_scanner_running
       THEN inj_pc' = "joined" /\ UNCHANGED served
       ELSE IF g_scan_requested
            THEN inj_pc' = "scan" /\ served' = delivered
            ELSE inj_pc' = "sleep" /\ UNCHANGED served
    /\ UNCHANGED <<g_scan_requested, g_scanner_running, delivered, reports>>
    /\ UNCHANGED restOfInj

\* scanner_worker: the scan runs to its end and the report is appended to
\* memory_scan.log.
InjScan ==
    /\ inj_pc = "scan"
    /\ reports' = reports + 1
    /\ inj_pc' = "reset"
    /\ UNCHANGED <<g_scan_requested, g_scanner_running, delivered, served>>
    /\ UNCHANGED restOfInj

\* scanner_worker: the request flag is reset after the report.
InjReset ==
    /\ inj_pc = "reset"
    /\ g_scan_requested' = FALSE
    /\ inj_pc' = "sleep"
    /\ UNCHANGED <<g_scanner_running, delivered, served, reports>>
    /\ UNCHANGED restOfInj

\* scanner_worker: the 10 ms sleep at the end of the loop body.
InjSleep ==
    /\ inj_pc = "sleep"
    /\ inj_pc' = "poll"
    /\ UNCHANGED <<g_scan_requested, g_scanner_running, delivered, served, reports>>
    /\ UNCHANGED restOfInj

\* ScannerThread::~ScannerThread at process exit: the worker is told to stop.
InjStop ==
    /\ g_scanner_running
    /\ g_scanner_running' = FALSE
    /\ UNCHANGED <<g_scan_requested, inj_pc, delivered, served, reports>>
    /\ UNCHANGED restOfInj

\* ScannerThread::ScannerThread and attach_scanner have run: the worker is
\* at its loop test and the handler is installed.
InjInit ==
    /\ g_scan_requested = FALSE
    /\ g_scanner_running = TRUE
    /\ inj_pc = "poll"
    /\ delivered = 0
    /\ served = 0
    /\ reports = 0

(***************************************************************************)
(* ProcessManager::CreateCheckpoint and RestoreCheckpoint over CRIU        *)
(***************************************************************************)
MaxCriuCalls == 2

CriuCall(op, env) ==
    LET o == CriuOutcome(op, env, is_attached, traced, maps_file, all_regions,
                         readable_regions)
    IN  /\ cr_calls < MaxCriuCalls
        /\ cr_calls' = cr_calls + 1
        /\ cr_op' = op
        /\ cr_env' = env
        /\ cr_before' = is_attached
        /\ cr_detach' = o.detach
        /\ cr_attach' = o.attach
        /\ cr_snapshot' = o.snapshot
        /\ cr_ret' = o.ret
        /\ is_attached' = o.is_attached
        /\ traced' = o.traced
        /\ all_regions' = o.all
        /\ readable_regions' = o.readable
        /\ UNCHANGED <<maps_file, mem>>

CreateCheckpoint ==
    /\ \E env \in CriuEnvs : CriuCall("CreateCheckpoint", env)
    /\ UNCHANGED restOfCr

RestoreCheckpoint ==
    /\ \E env \in CriuEnvs : CriuCall("RestoreCheckpoint", env)
    /\ UNCHANGED restOfCr

\* A process manager that is attached to its child, or one that is not.
CrInit ==
    /\ maps_file = ScanMaps
    /\ mem = ScanMem
    /\ \E e \in {AttachOk, [AttachOk EXCEPT !.ptrace_ok = FALSE]} :
        LET o == AttachOutcome(e, ScanMaps, << >>, << >>) IN
            /\ is_attached = o.is_attached
            /\ traced = o.traced
            /\ all_regions = o.all
            /\ readable_regions = o.readable
    /\ cr_op = "none"
    /\ cr_env \in {e \in CriuEnvs : e.dir = "ok" /\ e.mkdir_ok /\ e.init_ok /\ e.snapshot_ok
                                     /\ e.detach_ok /\ e.attach = AttachOk}
    /\ cr_before = FALSE
    /\ cr_ret = FALSE
    /\ cr_detach = "none"
    /\ cr_attach = "none"
    /\ cr_snapshot = "none"
    /\ cr_calls = 0

(***************************************************************************)
(* Specifications                                                          *)
(***************************************************************************)
vars ==
    <<packVars, flipVars, ptrVars, childVars, pmVars, stratVars, scanVars, ckptVars, cmdVars,
      attVars, rwVars, seedVars, askVars, perVars, injVars, crVars>>

SpecPackInit ==
    PackInit /\ FlipIdle /\ PtrIdle /\ ChildIdle /\ PMInit /\ StratIdle /\ ScanIdle
    /\ CkptIdle /\ CmdIdle /\ AttIdle /\ RwIdle /\ SeedIdle /\ AskIdle /\ PerIdle
    /\ InjIdle /\ CrIdle
SpecPackNext == PackStep \/ UnpackStep \/ SigvalCtorStep
SpecPack == SpecPackInit /\ [][SpecPackNext]_vars

SpecFlipInit ==
    FlipInit /\ PackIdle /\ PtrIdle /\ ChildIdle /\ PMInit /\ StratIdle /\ ScanIdle
    /\ CkptIdle /\ CmdIdle /\ AttIdle /\ RwIdle /\ SeedIdle /\ AskIdle /\ PerIdle
    /\ InjIdle /\ CrIdle
SpecFlipNext == FlipStep
SpecFlip == SpecFlipInit /\ [][SpecFlipNext]_vars

SpecPtrInit ==
    PtrInit /\ PMInit /\ PackIdle /\ FlipIdle /\ StratIdle /\ ScanIdle /\ CkptIdle
    /\ CmdIdle /\ AttIdle /\ RwIdle /\ SeedIdle /\ AskIdle /\ PerIdle /\ InjIdle
    /\ CrIdle
SpecPtrNext == PtrRefresh \/ PtrQuery
SpecPtr == SpecPtrInit /\ [][SpecPtrNext]_vars

SpecScanInit ==
    ScanInit /\ PackIdle /\ FlipIdle /\ PtrIdle /\ CkptIdle /\ CmdIdle /\ AttIdle
    /\ RwIdle /\ SeedIdle /\ AskIdle /\ PerIdle /\ InjIdle /\ CrIdle
SpecScanNext == ScanNext
SpecScan == SpecScanInit /\ [][SpecScanNext]_vars

SpecOneInit ==
    OneInit /\ PackIdle /\ FlipIdle /\ PtrIdle /\ CkptIdle /\ CmdIdle /\ AttIdle
    /\ RwIdle /\ SeedIdle /\ AskIdle /\ PerIdle /\ InjIdle /\ CrIdle
SpecOneNext == ScanNext
SpecOne == SpecOneInit /\ [][SpecOneNext]_vars

SpecSeedInit ==
    SeedInit /\ PackIdle /\ FlipIdle /\ PtrIdle /\ CkptIdle /\ CmdIdle /\ AttIdle
    /\ RwIdle /\ AskIdle /\ PerIdle /\ InjIdle /\ CrIdle
SpecSeedNext ==
    \/ \E r \in {1, 2}, t \in Threads : SeedWord(r, t)
    \/ \E r \in {1, 2} : SeedJoin(r)
SpecSeed == SpecSeedInit /\ [][SpecSeedNext]_vars

SpecAskInit ==
    AskInit /\ PackIdle /\ FlipIdle /\ PtrIdle /\ ChildIdle /\ PMInit /\ ScanIdle
    /\ CkptIdle /\ CmdIdle /\ AttIdle /\ RwIdle /\ SeedIdle /\ PerIdle /\ InjIdle
    /\ CrIdle
SpecAskNext == QuotaUse
SpecAsk == SpecAskInit /\ [][SpecAskNext]_vars

SpecPerInit ==
    PerInit /\ PackIdle /\ FlipIdle /\ PtrIdle /\ ChildIdle /\ PMInit /\ StratIdle
    /\ ScanIdle /\ CkptIdle /\ CmdIdle /\ AttIdle /\ RwIdle /\ SeedIdle /\ AskIdle
    /\ InjIdle /\ CrIdle
SpecPerNext == PerDelay \/ PerCheck \/ PerGuard \/ PerScan \/ PerSleep \/ PerChildExit
SpecPer == SpecPerInit /\ [][SpecPerNext]_vars

SpecInjInit ==
    InjInit /\ PackIdle /\ FlipIdle /\ PtrIdle /\ ChildIdle /\ PMInit /\ StratIdle
    /\ ScanIdle /\ CkptIdle /\ CmdIdle /\ AttIdle /\ RwIdle /\ SeedIdle /\ AskIdle
    /\ PerIdle /\ CrIdle
SpecInjNext == InjSignal \/ InjPoll \/ InjScan \/ InjReset \/ InjSleep \/ InjStop
SpecInj == SpecInjInit /\ [][SpecInjNext]_vars

SpecCrInit ==
    CrInit /\ PackIdle /\ FlipIdle /\ PtrIdle /\ StratIdle /\ ScanIdle /\ CkptIdle
    /\ CmdIdle /\ AttIdle /\ RwIdle /\ SeedIdle /\ AskIdle /\ PerIdle /\ InjIdle
SpecCrNext == CreateCheckpoint \/ RestoreCheckpoint
SpecCr == SpecCrInit /\ [][SpecCrNext]_vars

SpecCkptInit ==
    CkptInit /\ PackIdle /\ FlipIdle /\ PtrIdle /\ StratIdle /\ ScanIdle /\ CmdIdle
    /\ AttIdle /\ RwIdle /\ SeedIdle /\ AskIdle /\ PerIdle /\ InjIdle /\ CrIdle
SpecCkptNext ==
    CkAttach \/ CkDetach \/ CkCreate \/ CkRestore \/ CkPoke \/ CkChildWrite \/ CkChildRemap
SpecCkpt == SpecCkptInit /\ [][SpecCkptNext]_vars

SpecCmdInit ==
    CmdInit /\ PackIdle /\ FlipIdle /\ PtrIdle /\ CkptIdle /\ AttIdle /\ RwIdle
    /\ SeedIdle /\ AskIdle /\ PerIdle /\ InjIdle /\ CrIdle
SpecCmdNext ==
    \/ ChStart \/ ChQueue \/ ChResponse \/ ChWake \/ ChTimeout \/ ChExit
    \/ HandleCommandSignal
    \/ MonCheck \/ MonClear \/ MonProcess \/ MonDispatch \/ MonScanDone \/ MonRespond
    \/ MonReturn
    \/ \E w \in Threads : WReadPage(w)
    \/ \E w \in Threads : WWord(w)
    \/ \E w \in Threads : WApply(w)
    \/ \E w \in Threads : WIncr(w)
    \/ \E w \in Threads : WFlush(w)
    \/ ScanJoin
SpecCmd == SpecCmdInit /\ [][SpecCmdNext]_vars

\* Command mode with the child's thread scheduled while the child runs: the
\* sigqueue call and the 1 ms polls of SendCommand's wait loop take place, and
\* the steady clock passes TIMEOUT when no response comes.
SpecCmdLive == SpecCmd /\ WF_vars(ChQueue \/ ChWake \/ ChTimeout)

\* RunMonitorLoop: the controller in either mode, as mode_ selects.
SpecModesInit == SpecPerInit \/ SpecCmdInit
SpecModesNext == SpecPerNext \/ SpecCmdNext
SpecModes == SpecModesInit /\ [][SpecModesNext]_vars

SpecAttInit ==
    AttInit /\ PackIdle /\ FlipIdle /\ PtrIdle /\ StratIdle /\ ScanIdle /\ CkptIdle
    /\ CmdIdle /\ RwIdle /\ SeedIdle /\ AskIdle /\ PerIdle /\ InjIdle /\ CrIdle
SpecAttNext == AtAttach \/ AtDetach \/ GuardCtor \/ GuardDtor
SpecAtt == SpecAttInit /\ [][SpecAttNext]_vars

SpecRwInit ==
    RwInit /\ PackIdle /\ FlipIdle /\ PtrIdle /\ StratIdle /\ ScanIdle /\ CkptIdle
    /\ CmdIdle /\ AttIdle /\ SeedIdle /\ AskIdle /\ PerIdle /\ InjIdle /\ CrIdle
SpecRwNext == RwAttach \/ RwDetach \/ RwRead \/ RwWrite
SpecRw == SpecRwInit /\ [][SpecRwNext]_vars

(***************************************************************************)
(* Properties                                                              *)
(***************************************************************************)
\* C1: for every error limit L and every worker count, over every sequence
\* of scans with the same strategy, the change map never holds more than L
\* entries and no more than L handler calls have returned true.
ChangeMapWithinLimit ==
    /\ Cardinality(DOMAIN changes_) <= quota_.wildcard_quota
    /\ injections <= quota_.wildcard_quota

\* C2: in command mode every command the child sends, of every kind and with
\* every pair of parameters below 2^28, is recorded as pending by the
\* monitor's request handler: each run of the handler records its request.
EveryRequestRecorded == recorded = handler_runs

\* C3: CreateCheckpoint immediately followed by RestoreCheckpoint, nothing
\* having written to the child or changed its layout in between, succeeds and
\* leaves every word of the child as it was before the checkpoint.
CheckpointRestoreRoundTrip ==
    (ck_op = "restore" /\ ck_prev = [op |-> "create", ret |-> TRUE]) =>
        (ck_ret /\ mem = ck_saved)

CheckpointRestoreWitness ==
    /\ ck_op = "restore"
    /\ ck_prev = [op |-> "create", ret |-> TRUE]
    /\ ck_ret
    /\ Len(checkpoint_data_) = 3
    /\ Len(checkpoint_data_[1].data) = 2
    /\ mem = ck_saved
    /\ mem # CkMem

\* C4: when the region table differs from the regions recorded by the last
\* checkpoint, in the number of regions or in some region's start, end or
\* writable flag, RestoreCheckpoint returns failure and writes nothing.
RestoreRefusesChangedLayout ==
    LET differs ==
            \/ Len(checkpoint_regions_) # Len(readable_regions)
            \/ \E i \in 1 .. Len(checkpoint_regions_) :
                \/ checkpoint_regions_[i].start_addr # readable_regions[i].start_addr
                \/ checkpoint_regions_[i].end_addr # readable_regions[i].end_addr
                \/ checkpoint_regions_[i].is_writable # readable_regions[i].is_writable
    IN (ck_op = "restore" /\ differs) => (~ck_ret /\ mem = ck_before)

RestoreRefusesWitness ==
    /\ ck_op = "restore"
    /\ is_attached
    /\ checkpoint_data_ # << >>
    /\ Len(checkpoint_regions_) = Len(readable_regions)
    /\ checkpoint_regions_[2].is_writable
    /\ ~readable_regions[2].is_writable
    /\ ~ck_ret
    /\ mem = ck_before

\* C5: two consecutive successful RestoreCheckpoint calls leave the child's
\* memory as the first of them left it, whatever was written between the
\* checkpoint and the first restore.
RestoreTwiceIsRestoreOnce ==
    (ck_op = "restore" /\ ck_ret /\ ck_prev = [op |-> "restore", ret |-> TRUE]) =>
        mem = ck_before

RestoreTwiceWitness ==
    /\ ck_op = "restore"
    /\ ck_ret
    /\ ck_prev = [op |-> "restore", ret |-> TRUE]
    /\ ~ck_clean
    /\ mem = ck_before
    /\ mem = CkMem

\* C6: for every kind in 0..4 and every pair of parameters below 2^28,
\* unpacking the packed value, through Unpack or through the sigval
\* constructor, gives back the same kind, param1 and param2.
PackRoundTrip ==
    (pack_pc \in {"unpacked", "constructed"} /\ InRange(cmd_in)) => cmd_out = cmd_in

PackRoundTripWitness ==
    /\ pack_pc = "constructed"
    /\ cmd_in = [cmd |-> Scan, param1 |-> PARAM_MASK, param2 |-> FromNat(703710)]
    /\ cmd_out = cmd_in

\* C7: IsLikelyPointer(v) is false when v is zero, when v is odd, or when the
\* top 16 bits of v are neither all zero nor all one, whatever the region
\* table holds; in every other case it equals IsValidPointerTarget(v).
LikelyPointerRule ==
    ptr_pc = "done" =>
        LET top == query_value \cap (48 .. 63)
            rejected == \/ query_value = {}
                        \/ 0 \in query_value
                        \/ (top # {} /\ top # 48 .. 63)
        IN query_likely = (IF rejected THEN FALSE ELSE query_valid)

LikelyPointerRuleWitness ==
    /\ ptr_pc = "done"
    /\ query_likely
    /\ query_value \cap (48 .. 63) = 48 .. 63
    /\ Len(all_regions) = 4

\* C8: on a region table built by a successful RefreshMemoryMap (disjoint
\* ranges, sorted by start) the binary search of IsValidPointerTarget answers
\* true exactly when some region r has r.start <= a < r.end.
BinarySearchAgreesWithLinear ==
    ptr_pc = "done" =>
        query_valid = (\E i \in 1 .. Len(all_regions) :
                          /\ ~ULess(query_value, all_regions[i].start_addr)
                          /\ ULess(query_value, all_regions[i].end_addr))

BinarySearchAgreesWitness ==
    /\ ptr_pc = "done"
    /\ query_valid
    /\ Len(all_regions) = 6
    /\ ULess(all_regions[4].start_addr, query_value)
    /\ ULess(query_value, all_regions[4].end_addr)

\* C9: after every completed scan, for every worker count and every pattern
\* of failed page reads, the merged bytes_readable plus the merged
\* bytes_skipped is the sum of end - start over the readable regions.
ReadablePlusSkippedIsRegionBytes ==
    scan_result = "stats" =>
        LET RECURSIVE RegionBytes(_)
            RegionBytes(regs) ==
                IF regs = << >> THEN 0
                ELSE ToNat(Head(regs).end_addr) - ToNat(Head(regs).start_addr)
                     + RegionBytes(Tail(regs))
        IN last_stats.bytes_readable + last_stats.bytes_skipped
               = RegionBytes(readable_regions)

ReadablePlusSkippedWitness ==
    /\ scan_result = "stats"
    /\ num_threads = 2
    /\ last_stats.bytes_skipped = PageSize
    /\ last_stats.bytes_readable = 2 * PageSize
    /\ last_stats.regions_scanned = 3

\* C10: for every word w and every bit index b in 0..63, the BitFlip
\* transformation applied twice with the same b gives back w.
FlipTwiceRestores ==
    (flip_type = "BitFlip" /\ flip_count = 2) => flip_value = flip_orig

FlipTwiceRestoresWitness ==
    /\ flip_type = "BitFlip"
    /\ flip_count = 2
    /\ flip_bit = 63
    /\ flip_orig = {12, 47}
    /\ flip_value = flip_orig

\* C11: whenever the command loop is outside an iteration (in its poll sleep
\* or returned), the controller is detached and the child is not traced.
DetachedOutsideIteration ==
    mon_pc \in {"loop", "exited"} => (~is_attached /\ ~traced)

AttachFailureLeavesDetached ==
    /\ is_attached = traced
    /\ at_op \in {"Attach", "ctor+Attach"} =>
          IF at_ret THEN is_attached ELSE (~is_attached /\ ~traced)

\* C14: an Attach that did attach and returned true saw, as its final stop,
\* a stop by SIGSTOP: the first stop, or the second after one SIGTRAP stop.
AttachAcceptsOnlySigstop ==
    LET final == IF at_env.wait1 = "SIGTRAP" THEN at_env.wait2 ELSE at_env.wait1
    IN (at_op \in {"Attach", "ctor+Attach"} /\ ~at_before.is_attached /\ at_ret)
          => final = "SIGSTOP"

\* C15: in a ReadMemory or WriteMemory call made while attached, a
\* scatter-gather call that failed or transferred fewer bytes than asked is
\* followed by the word-by-word path, and the call fails only when that path
\* cannot transfer every word.
ShortTransferFallsBack ==
    (rw_op # "none" /\ rw_path # "none" /\ rw_vm # rw_size) =>
        /\ rw_path = "ptrace"
        /\ rw_ret = (PtraceLeading(prot, rw_addr, WordsFor(rw_size)) = WordsFor(rw_size))

\* C16: a WriteMemory that went through the word path and succeeded has set
\* the child's bytes [addr, addr + size) to the buffer and changed no byte
\* outside that range, whatever addr and size are.
FallbackWriteTouchesOnlyRange ==
    (rw_op = "write" /\ rw_path = "ptrace" /\ rw_ret) =>
        \A b \in DOMAIN child_bytes :
            child_bytes[b] = IF rw_addr <= b /\ b < rw_addr + rw_size
                             THEN rw_buf[b - rw_addr + 1]
                             ELSE rw_before[b]

\* C17: a ScanForPointers call made while not attached throws, and one made
\* while attached with a strategy whose PreRunner returns false returns no
\* statistics; either way no worker is started, the child's memory is left
\* alone, no handler runs and PostRunner is not called.
RefusedScanDoesNothing ==
    [][(ScanStart /\ (~is_attached \/ ~pre_runner_ok)) =>
          /\ scan_result' = IF ~is_attached THEN "threw" ELSE "nullopt"
          /\ scan_pc' = "idle"
          /\ workers' = workers
          /\ thread_stats' = thread_stats
          /\ mem' = mem
          /\ changes_' = changes_
          /\ quota_' = quota_
          /\ injections' = injections
          /\ post_calls' = post_calls]_vars

RefusedScanWitness ==
    /\ is_attached
    /\ ~pre_runner_ok
    /\ scan_result = "nullopt"
    /\ scans_done = 2
    /\ scan_pc = "idle"
    /\ pre_calls = 1
    /\ post_calls = 0
    /\ mem = ScanMem
    /\ changes_ = << >>

\* C18: with both error rates 0.0, whatever the random draws are, scans
\* leave every word of the child as it was, no handler call returns true and
\* the change map stays empty.
ZeroRatesInjectNothing ==
    (pointer_error_rate_ = 0 /\ non_pointer_error_rate_ = 0) =>
        /\ mem = ScanMem
        /\ injections = 0
        /\ changes_ = << >>

\* C19: with pointer rate 1.0, non-pointer rate 0.0, error limit 1, BitFlip
\* and one worker, after one scan that read every page there is exactly one
\* change record; it is at the first word, in ascending address order within
\* the writable regions, that classifies as a pointer, and its modified value
\* is its original value with one bit flipped.
OneErrorAtFirstPointer ==
    LET Words(r) == { a \in DOMAIN mem : Contains(r, FromNat(a)) }
        writable == UNION { Words(readable_regions[i]) :
                              i \in { j \in 1 .. Len(readable_regions) :
                                        readable_regions[j].is_writable } }
    IN (scan_result = "stats" /\ scans_done = 1 /\ last_stats.bytes_skipped = 0) =>
        /\ Cardinality(DOMAIN changes_) = 1
        /\ \A a \in DOMAIN changes_ :
            /\ a \in writable
            /\ IsLikelyPointer(all_regions, changes_[a].original)
            /\ \A b \in writable : b < a => ~IsLikelyPointer(all_regions, mem[b])
            /\ \E bit \in BitIdx :
                changes_[a].modified = BitXor(changes_[a].original, {bit})

\* C20: two runs given the same nonzero seed, the same child, the same
\* regions and the same configuration hold the same change map after each
\* scan, whatever the number of worker threads.
SameSeedSameChanges ==
    \A k \in 1 .. MaxScans :
        (Len(runs[1].after) >= k /\ Len(runs[2].after) >= k) =>
            runs[1].after[k] = runs[2].after[k]

\* C21: for every pointer class, Unknown included, and every quota state,
\* the quota permits a mutation exactly when the class counter is below the
\* class quota or the wildcard counter is below the wildcard quota.
QuotaPermitsByBudget ==
    LET q == ask_quota
        class_left ==
            CASE ask_type = "Heap"   -> q.heap_errors < q.heap_quota
              [] ask_type = "Stack"  -> q.stack_errors < q.stack_quota
              [] ask_type = "Static" -> q.static_errors < q.static_quota
              [] OTHER               -> FALSE
    IN ask_count > 0 =>
          (ask_ret <=> (class_left \/ q.wildcard_errors < q.wildcard_quota))

\* C22: in periodic mode with an iteration cap K, K = 0 included, the
\* controller has called ScanForPointers at most K times, and after K scans
\* that returned statistics it has returned.
ScansWithinCap ==
    iteration_limit.has =>
        /\ per_scans <= iteration_limit.value
        /\ (per_scans >= iteration_limit.value /\ per_scans > 0 => per_pc = "returned")

\* C23: in periodic mode a failed attach does not end the handler: while the
\* child is alive the controller goes on to sleep and to the next cycle.
AttachFailureRetries ==
    per_failed = "attach" => per_pc # "returned"

\* C24: in command mode a command whose handling failed, or whose sender
\* timed out, does not end the monitor's command loop: the loop returns only
\* once the child is gone.
FailedCommandKeepsLoop ==
    mon_pc = "exited" => ~child_alive

\* C25: SendCommand always terminates: a running child does not stay inside
\* it for ever; it returns true exactly when its wait loop saw the response
\* flag set, and false when the request could not be queued or the timeout
\* expired with the flag unset, a monitor that never responds included.
SendCommandTerminates ==
    /\ [][(ch_pc \in {"queue", "wait"} /\ ch_pc' = "idle") =>
            /\ ch_ret' \in {"true", "false"}
            /\ (ch_ret' = "true") <=> (ch_pc = "wait" /\ g_response_received)]_vars
    /\ []<>~(ch_pc \in {"queue", "wait"} /\ child_alive /\ ~traced)

\* SendCommand returned false on the timeout: the request was queued and
\* recorded, and the monitor had sent no response.
SendCommandTimedOut ==
    /\ ch_pc = "idle"
    /\ ch_ret = "false"
    /\ sent = 1
    /\ recorded = 1
    /\ responses = 0
    /\ mon_pc # "exited"

\* C26: every SIGUSR1 delivered to the preloaded scanner is followed by a
\* scan that starts after its delivery, one delivered in the middle of a scan
\* included: whenever the worker is back at its loop with no request set, the
\* latest scan started after every signal delivered so far.
EverySignalGetsItsScan ==
    (g_scanner_running /\ inj_pc \in {"poll", "sleep"} /\ ~g_scan_requested) =>
        served = delivered

\* C27: CreateCheckpoint and RestoreCheckpoint return with the attached
\* state they were entered with, on success and on every failure path,
\* provided the Detach and the Attach they called returned true.
CriuKeepsAttachedState ==
    (cr_op # "none" /\ cr_detach # "false" /\ cr_attach # "false") =>
        is_attached = cr_before

\* A dump that failed in a manager that was attached: it detached, failed,
\* and reattached on the way out.
CriuFailedDumpReattached ==
    /\ cr_op = "CreateCheckpoint"
    /\ cr_before
    /\ ~cr_env.snapshot_ok
    /\ ~cr_ret
    /\ cr_detach = "true"
    /\ cr_attach = "true"
    /\ is_attached

\* C28: during a scan no two workers touch the same mutable state, the state
\* behind the strategy handlers included: two workers are never both between
\* the load and the store of quota.Increment on the same quota counter.
WorkersShareNothing ==
    \A a, b \in Threads :
        (a # b /\ workers[a].pc = "incr" /\ workers[b].pc = "incr"
               /\ workers[a].h.target # "none") =>
            workers[a].h.target # workers[b].h.target

\* C29: ScanForPointers returns only after all its workers have terminated:
\* outside a scan no worker is active, and the merge of the counters,
\* PostRunner, Attach, Detach and the refresh of the region table take place
\* only while every worker of the scan has finished.
ScanReturnsAfterWorkers ==
    /\ [](scan_pc = "idle" => \A t \in Threads : workers[t].pc = "done")
    /\ [][(\/ last_stats' # last_stats
           \/ post_calls' # post_calls
           \/ scan_result' # scan_result
           \/ is_attached' # is_attached
           \/ traced' # traced
           \/ all_regions' # all_regions
           \/ readable_regions' # readable_regions) =>
              \A t \in Threads : workers[t].pc = "done"]_vars

\* A scan by two workers that both had regions has returned its statistics.
TwoWorkersJoined ==
    /\ scan_pc = "idle"
    /\ scan_result = "stats"
    /\ num_threads = 2
    /\ post_calls = 1
    /\ \A t \in Threads : thread_stats[t].regions_scanned > 0

\* C30: for every worker count N and every readable-region list, region i
\* (counted from zero) is handed to worker i mod N and to no other, in list
\* order; every readable region is scanned exactly once per scan, and the
\* merged regions_scanned of a scan is the number of readable regions.
RoundRobinOncePerRegion ==
    [][LET Share(len, n, t) == {i \in 1 .. len : (i - 1) % n = t}
           RoundRobin(regs, n, t, got) ==
               /\ Len(got) = Cardinality(Share(Len(regs), n, t))
               /\ \A k \in 1 .. Len(got) : got[k] = regs[t + 1 + (k - 1) * n]
       IN  /\ (scan_pc = "idle" /\ scan_pc' = "running") =>
                /\ \A t \in 0 .. (num_threads - 1) :
                      RoundRobin(readable_regions, num_threads, t, workers'[t].regions)
                /\ \A n \in 1 .. (MaxThreads + 1), len \in 0 .. (MaxThreads + 2) :
                      \A t \in 0 .. (n - 1) :
                          RoundRobin([i \in 1 .. len |-> i], n, t,
                                     ThreadRegions([i \in 1 .. len |-> i], n, t))
           /\ (scan_pc = "running" /\ scan_pc' = "idle") =>
                /\ \A t \in 0 .. (num_threads - 1) :
                      thread_stats[t].regions_scanned =
                          Cardinality(Share(Len(readable_regions), num_threads, t))
                /\ last_stats'.regions_scanned = Len(readable_regions)]_vars

\* A scan of three readable regions by two workers has returned: the first
\* worker scanned two regions and the second one.
RoundRobinWitness ==
    /\ scan_pc = "idle"
    /\ scan_result = "stats"
    /\ num_threads = 2
    /\ Len(readable_regions) = 3
    /\ thread_stats[0].regions_scanned = 2
    /\ thread_stats[1].regions_scanned = 1
    /\ last_stats.regions_scanned = 3

\* C31: within one scan every aligned word of every page that was read is
\* passed to exactly one handler exactly once, in ascending offset order
\* within its page, to HandlePointer exactly when IsLikelyPointer holds for
\* the value read; the words of a page whose read failed go to no handler.
EveryWordHandledOnce ==
    /\ [](\A a \in DOMAIN handled :
            /\ Len(handled[a]) = 1
            /\ (handled[a][1].handler = "HandlePointer")
                   <=> IsLikelyPointer(all_regions, handled[a][1].value))
    /\ [][LET InPage(w) == {b \in DOMAIN handled :
                               /\ workers[w].addr <= b
                               /\ b < workers[w].addr + workers[w].to_read}
              PageWordsOf(r, p) ==
                  {p + i * WordSize : i \in
                      {k \in 0 .. (PageWords - 1) :
                          /\ (k + 1) * WordSize <= PageSize
                          /\ p + (k + 1) * WordSize <= ToNat(r.end_addr)}}
              PagesOf(r) ==
                  {p \in ToNat(r.start_addr) .. (ToNat(r.end_addr) - 1) :
                      (p - ToNat(r.start_addr)) % PageSize = 0}
          IN  /\ (scan_pc = "running" /\ DOMAIN handled' # DOMAIN handled) =>
                    \E w \in Threads :
                        /\ workers[w].pc = "word"
                        /\ DOMAIN handled' = DOMAIN handled \cup
                              {workers[w].addr + WordSize * Cardinality(InPage(w))}
                        /\ workers[w].addr + WordSize * Cardinality(InPage(w))
                              \notin DOMAIN handled
              /\ \A w \in Threads :
                    (workers[w].pc = "page"
                       /\ thread_stats'[w].bytes_skipped # thread_stats[w].bytes_skipped) =>
                        \A b \in DOMAIN handled :
                            b < workers[w].addr \/ b >= workers[w].addr + PageSize
              /\ (scan_pc = "running" /\ scan_pc' = "idle") =>
                    /\ \A i \in 1 .. Len(readable_regions) :
                          \A p \in PagesOf(readable_regions[i]) :
                              \/ PageWordsOf(readable_regions[i], p) \subseteq DOMAIN handled
                              \/ PageWordsOf(readable_regions[i], p) \cap DOMAIN handled = {}
                    /\ Cardinality(DOMAIN handled) * WordSize = last_stats'.bytes_readable]_vars

\* A scan has returned in which one page could not be read and the words of
\* the other pages went to both handlers.
BothHandlersOnePageSkipped ==
    /\ scan_pc = "idle"
    /\ scan_result = "stats"
    /\ last_stats.bytes_skipped = PageSize
    /\ \E a, b \in DOMAIN handled :
          /\ handled[a][1].handler = "HandlePointer"
          /\ handled[b][1].handler = "HandleNonPointer"

\* C32: a page is written back exactly when a handler call on one of its
\* words returned true and its region is writable: at the end of a page the
\* dirty flag is set exactly when such a call was made, and the child's
\* memory changes only then, only within that page and only to the page
\* buffer; non-writable regions, pages with no mutated word and skipped
\* pages keep every byte.
WriteBackOnlyDirtyWritable ==
    /\ [](\A w \in Threads :
            workers[w].pc = "flush" =>
                (workers[w].write_back <=>
                    \E a \in DOMAIN handled :
                        /\ workers[w].addr <= a
                        /\ a < workers[w].addr + workers[w].to_read
                        /\ handled[a][1].ret))
    /\ [][(scan_pc = "running" /\ mem' # mem) =>
            \E w \in Threads :
                LET wk == workers[w]
                    InPage(a) == wk.addr <= a /\ a < wk.addr + wk.to_read
                IN  /\ wk.pc = "flush"
                    /\ workers'[w] # wk
                    /\ wk.regions[wk.ridx].is_writable
                    /\ \E a \in DOMAIN handled : InPage(a) /\ handled[a][1].ret
                    /\ \A a \in DOMAIN mem :
                          mem'[a] = IF InPage(a)
                                    THEN wk.buf[((a - wk.addr) \div WordSize) + 1]
                                    ELSE mem[a]]_vars

\* A scan has returned in which a handler call returned true and the word
\* it was made on has been changed in the child by the write-back.
WrittenBackWitness ==
    /\ scan_pc = "idle"
    /\ scan_result = "stats"
    /\ \E a \in DOMAIN handled :
          /\ handled[a][1].ret
          /\ mem[a] # handled[a][1].value

\* C33: with handler calls one after the other, every counter of the quota
\* stays at or below its quota, and each injection increments exactly one
\* counter by one: the counter of the word's class if it was below the class
\* quota, the wildcard counter otherwise.
QuotaCountersWithinQuota ==
    LET Counters == {"heap_errors", "stack_errors", "static_errors", "wildcard_errors"}
        ClassCounter(type) ==
            CASE type = "Heap" -> "heap_errors"
              [] type = "Stack" -> "stack_errors"
              [] OTHER -> "static_errors"
        ClassQuota(type) ==
            CASE type = "Heap" -> "heap_quota"
              [] type = "Stack" -> "stack_quota"
              [] OTHER -> "static_quota"
        Expected(q, type) ==
            IF q[ClassCounter(type)] < q[ClassQuota(type)]
            THEN ClassCounter(type) ELSE "wildcard_errors"
    IN  /\ quota_.heap_errors <= quota_.heap_quota
        /\ quota_.stack_errors <= quota_.stack_quota
        /\ quota_.static_errors <= quota_.static_quota
        /\ quota_.wildcard_errors <= quota_.wildcard_quota
        /\ ask_count > 0 =>
              IF ask_ret
              THEN \A c \in Counters :
                      quota_[c] = ask_quota[c]
                                  + (IF c = Expected(ask_quota, ask_type) THEN 1 ELSE 0)
              ELSE quota_ = ask_quota

\* The whole budget has been spent by permitted injections.
QuotaSpentWitness ==
    /\ ask_ret
    /\ quota_.wildcard_quota = MaxLimit
    /\ quota_.wildcard_errors = quota_.wildcard_quota

\* C34: for every command dispatched in command mode the response is sent
\* only after the handler has finished (no scan in progress) and while the
\* attachment taken for the command is still held, it answers the one command
\* dispatched and not yet answered, and the attachment is taken only by the
\* guard at the start of ProcessCommand (after the pending flag was cleared)
\* and released only at its end, after the response.
CommandEventsInOrder ==
    [][ /\ responses' # responses =>
             /\ mon_pc = "respond"
             /\ scan_pc = "idle"
             /\ is_attached
             /\ responses' = dispatched
        /\ (~is_attached /\ is_attached') => mon_pc = "process"
        /\ (is_attached /\ ~is_attached') => mon_pc = "return"
      ]_vars

\* C35: in periodic and in command mode, the liveness check that finds the
\* child gone (or fails) ends the loop at once with true, and from then on
\* nothing is attached, scanned, checkpointed, restored, dispatched or
\* answered.
ChildExitEndsLoop ==
    [][ /\ (per_pc = "check" /\ per_pc' # per_pc /\ (~per_child \/ per_pc' # "guard")) =>
             /\ per_pc' = "returned"
             /\ per_ret' = "true"
             /\ UNCHANGED <<per_scans, iterations>>
        /\ per_pc = "returned" => UNCHANGED <<per_scans, iterations, per_ret>>
        /\ (mon_pc = "loop" /\ mon_pc' # mon_pc /\ ~child_alive) =>
             /\ mon_pc' = "exited"
             /\ mon_ret' = "true"
             /\ UNCHANGED <<pmVars, childVars, scanVars, stratVars, dispatched,
                            responses>>
        /\ mon_pc = "exited" =>
             UNCHANGED <<pmVars, traced, mem, scanVars, stratVars, dispatched,
                         responses, mon_ret>>
      ]_vars

\* The command loop has returned true on the child's exit with a recorded
\* request left undispatched.
ChildExitLeavesRequest ==
    /\ mon_pc = "exited"
    /\ mon_ret = "true"
    /\ ~child_alive
    /\ g_command_pending
    /\ dispatched < recorded

\* C36: criu_dump and criu_restore are called only while IsAttached() is
\* false: a call entered attached reaches them only after its Detach has
\* returned true, and a call whose Detach failed does not reach them.
SnapshotOnlyDetached ==
    /\ cr_snapshot # "attached"
    /\ (cr_snapshot = "detached" /\ cr_before) => cr_detach = "true"
    /\ cr_detach = "false" => (cr_snapshot = "none" /\ cr_ret = FALSE)
    /\ cr_ret = TRUE => cr_snapshot = "detached"

\* RestoreCheckpoint entered attached has detached, restored, and attached
\* again.
RestoredWhileDetached ==
    /\ cr_op = "RestoreCheckpoint"
    /\ cr_before
    /\ cr_detach = "true"
    /\ cr_snapshot = "detached"
    /\ cr_ret = TRUE
    /\ is_attached

\* C37: SendCommand returns true only if the monitor has sent a response
\* after dispatching that same command (the one numbered sent).
ResponseAnswersThisCommand ==
    [][ (ch_pc = "wait" /\ ch_ret' = "true") =>
            \E k \in DOMAIN seq.answered : seq.answered[k] = sent
      ]_vars

\* C38: whatever the interleaving of HandleCommandSignal with the command
\* loop, no request is dispatched twice and none is answered twice.
EachRequestDispatchedOnce ==
    /\ \A i, j \in DOMAIN seq.disp : seq.disp[i] = seq.disp[j] => i = j
    /\ \A i, j \in DOMAIN seq.answered : seq.answered[i] = seq.answered[j] => i = j

\* C39: within one completed ScanForPointers call PreRunner has been called
\* exactly once when the workers start, and PostRunner exactly once, after all
\* workers have joined and not before.
RunnersCalledOnce ==
    /\ scan_pc = "running" => (pre_calls = 1 /\ post_calls = 0)
    /\ (scan_pc = "idle" /\ scan_result = "stats") =>
          (pre_calls = 1 /\ post_calls = 1 /\ AllJoined)

\* C40: in every error mode one application of the error changes at most
\* one bit position of the word (old_value against value, the two values a
\* change record keeps), and in BitFlip mode exactly one.
OneBitPerChange ==
    [][ flip_count' = flip_count + 1 =>
          LET differ == (flip_value \ flip_value') \cup (flip_value' \ flip_value)
          IN  /\ Cardinality(differ) <= 1
              /\ flip_type = "BitFlip" => Cardinality(differ) = 1
              /\ differ \subseteq {flip_bit}
      ]_vars

\* StuckAtOne has set bit 63 of a word that did not have it.
StuckAtOneSetTopBit ==
    /\ flip_type = "StuckAtOne"
    /\ flip_count = 1
    /\ flip_bit = 63
    /\ flip_orig = {12, 47}
    /\ flip_value = {12, 47, 63}

====
